---- MODULE Spec2Model ----
(***************************************************************************)
(* Cyberpunk Megacity Roguelite (console_games/cyberpunk/cyberpunk.py):    *)
(* the level generator, the enemy AI and the turn loop of main().          *)
(* Coordinates are 0-based as in the source; game_map[y][x] is a tile.     *)
(***************************************************************************)
EXTENDS Integers, Sequences, FiniteSets, TLC

\* ------------------------------------------------------------------ tiles
TILE_WALL        == 0
TILE_FLOOR       == 1
TILE_DOOR        == 2
TILE_DOOR_LOCKED == 3
TILE_STAIRS      == 4
TILE_CORRIDOR    == 5
TILE_TERMINAL    == 6
TILE_SHOP_TILE   == 7
TILE_DOOR_OPEN   == 8

BLOCKING_TILES == {TILE_WALL, TILE_DOOR, TILE_DOOR_LOCKED}

OPAQUE_TILES == {TILE_WALL, TILE_DOOR, TILE_DOOR_LOCKED}

\* ----------------------------------------------------------------- bounds
\* The board of the source is 60 x 30; the model explores a smaller board
\* on which up to three rooms fit.
MAP_W == 16
MAP_H == 7
MIN_ROOM_SIZE == 4
\* Largest room side drawn (10 in the source).
MAX_ROOM_SIZE == 6
MAX_ROOMS == 12
MAX_LEVELS == 9
\* Cap on room-placement attempts (200 in the source).
MaxAttempts == 3

Min(a, b) == IF a <= b THEN a ELSE b
Max(a, b) == IF a >= b THEN a ELSE b
Abs(a) == IF a >= 0 THEN a ELSE 0 - a

XS == 0 .. (MAP_W - 1)
YS == 0 .. (MAP_H - 1)
InBounds(x, y) == 0 <= y /\ y < MAP_H /\ 0 <= x /\ x < MAP_W

\* The four cardinal steps in the order the source lists them.
DIRS4 == << <<-1, 0>>, <<1, 0>>, <<0, -1>>, <<0, 1>> >>

\* ------------------------------------------------------------------ rooms
Room(x, y, w, h) == [x |-> x, y |-> y, w |-> w, h |-> h]

center(r) == << r.x + (r.w \div 2), r.y + (r.h \div 2) >>

\* Room.intersects with strict comparisons: rooms that touch are accepted
intersects_strict(a, b) ==
    /\ a.x < b.x + b.w
    /\ a.x + a.w > b.x
    /\ a.y < b.y + b.h
    /\ a.y + a.h > b.y

\* Room.intersects
intersects(a, b) ==
    /\ a.x <= b.x + b.w
    /\ a.x + a.w >= b.x
    /\ a.y <= b.y + b.h
    /\ a.y + a.h >= b.y

EmptyMap == [y \in YS |-> [x \in XS |-> TILE_WALL]]

place_room(m, r) ==
    [y \in YS |-> [x \in XS |->
        IF r.y <= y /\ y < r.y + r.h /\ r.x <= x /\ x < r.x + r.w
        THEN TILE_FLOOR ELSE m[y][x]]]

\* h_corridor written as range(x1, x2 + 1): nothing is carved when x1 > x2.
h_corridor_norev(m, x1, x2, y) ==
    [yy \in YS |-> [x \in XS |->
        IF yy = y /\ x1 <= x /\ x <= x2 /\ m[yy][x] = TILE_WALL
        THEN TILE_CORRIDOR ELSE m[yy][x]]]

h_corridor(m, x1, x2, y) ==
    [yy \in YS |-> [x \in XS |->
        IF yy = y /\ Min(x1, x2) <= x /\ x <= Max(x1, x2) /\ m[yy][x] = TILE_WALL
        THEN TILE_CORRIDOR ELSE m[yy][x]]]

v_corridor(m, y1, y2, x) ==
    [y \in YS |-> [xx \in XS |->
        IF xx = x /\ Min(y1, y2) <= y /\ y <= Max(y1, y2) /\ m[y][xx] = TILE_WALL
        THEN TILE_CORRIDOR ELSE m[y][xx]]]

\* coin = TRUE is the branch random.random() < 0.5
connect_rooms(m, a, b, coin) ==
    LET c1 == center(a)
        c2 == center(b)
    IN  IF coin
        THEN v_corridor(h_corridor(m, c1[1], c2[1], c1[2]), c1[2], c2[2], c2[1])
        ELSE h_corridor(v_corridor(m, c1[2], c2[2], c1[1]), c1[1], c2[1], c2[2])

\* for i in range(1, len(rooms)): connect_rooms(rooms[i-1], rooms[i])
RECURSIVE ConnectAll(_, _, _, _)
ConnectAll(m, rs, coins, i) ==
    IF i > Len(rs) THEN m
    ELSE ConnectAll(connect_rooms(m, rs[i - 1], rs[i], coins[i]), rs, coins, i + 1)

\* ------------------------------------------------------------------ doors
Walkable == {TILE_FLOOR, TILE_CORRIDOR}

is_door_candidate(m, x, y) ==
    IF x <= 0 \/ x >= MAP_W - 1 \/ y <= 0 \/ y >= MAP_H - 1 THEN FALSE
    ELSE IF m[y][x] \notin {TILE_FLOOR, TILE_CORRIDOR} THEN FALSE
    ELSE IF ~(\E i \in 1 .. 4 :
                 /\ InBounds(x + DIRS4[i][1], y + DIRS4[i][2])
                 /\ m[y + DIRS4[i][2]][x + DIRS4[i][1]] = TILE_CORRIDOR)
         THEN FALSE
    ELSE LET n == m[y - 1][x]
             s == m[y + 1][x]
             w == m[y][x - 1]
             e == m[y][x + 1]
         IN  \/ (n = TILE_WALL /\ s = TILE_WALL /\ w \in Walkable /\ e \in Walkable)
             \/ (w = TILE_WALL /\ e = TILE_WALL /\ n \in Walkable /\ s \in Walkable)

\* The perimeter cells of a room in the order place_doors scans them.
RECURSIVE RowScan(_, _, _)
RowScan(r, x, acc) ==
    IF x >= r.x + r.w THEN acc
    ELSE RowScan(r, x + 1, acc \o << <<x, r.y>>, <<x, r.y + r.h - 1>> >>)

RECURSIVE ColScan(_, _, _)
ColScan(r, y, acc) ==
    IF y >= r.y + r.h THEN acc
    ELSE ColScan(r, y + 1, acc \o << <<r.x, y>>, <<r.x + r.w - 1, y>> >>)

Perimeter(r) == RowScan(r, r.x, << >>) \o ColScan(r, r.y, << >>)

RECURSIVE AllPerimeters(_, _)
AllPerimeters(rs, i) ==
    IF i > Len(rs) THEN << >> ELSE Perimeter(rs[i]) \o AllPerimeters(rs, i + 1)

InSeq(s, e) == \E i \in 1 .. Len(s) : s[i] = e

\* Result: [map, doors] after scanning cells[i..]
RECURSIVE DoorScan(_, _, _, _)
DoorScan(m, cells, i, ds) ==
    IF i > Len(cells) THEN [map |-> m, doors |-> ds]
    ELSE LET c == cells[i] IN
         IF ~InSeq(ds, c) /\ is_door_candidate(m, c[1], c[2])
         THEN DoorScan([m EXCEPT ![c[2]][c[1]] = TILE_DOOR], cells, i + 1, Append(ds, c))
         ELSE DoorScan(m, cells, i + 1, ds)

place_doors(m, rs) == DoorScan(m, AllPerimeters(rs, 1), 1, << >>)

\* ----------------------------------------------------------- reachability
Neighbours4(c) == { <<c[1] + DIRS4[i][1], c[2] + DIRS4[i][2]>> : i \in 1 .. 4 }

\* The visited set of the flood fill in _can_reach.
RECURSIVE Flood(_, _, _)
Flood(m, visited, frontier) ==
    LET nxt == { n \in UNION { Neighbours4(c) : c \in frontier } :
                    /\ n \notin visited
                    /\ InBounds(n[1], n[2])
                    /\ m[n[2]][n[1]] \notin BLOCKING_TILES }
    IN  IF nxt = {} THEN visited ELSE Flood(m, visited \cup nxt, nxt)

can_reach(m, start, goal) == goal \in Flood(m, {start}, {start})

\* ---------------------------------------------------------- door locking
\* for dx, dy in doors (shuffled): tentatively lock, keep the lock only if
\* the stairs stay reachable.  Result: [map, locked].
RECURSIVE LockDoors(_, _, _, _, _, _, _)
LockDoors(m, order, i, locked, locked_count, start, stairs) ==
    IF i > Len(order) \/ Len(locked) >= locked_count
    THEN [map |-> m, locked |-> locked]
    ELSE LET d == order[i]
             t == [m EXCEPT ![d[2]][d[1]] = TILE_DOOR_LOCKED]
         IN  IF can_reach(t, start, stairs)
             THEN LockDoors(t, order, i + 1, Append(locked, d), locked_count, start, stairs)
             ELSE LockDoors([t EXCEPT ![d[2]][d[1]] = TILE_DOOR], order, i + 1,
                            locked, locked_count, start, stairs)

Perms(s) ==
    { p \in [1 .. Len(s) -> 1 .. Len(s)] :
        \A i, j \in 1 .. Len(s) : p[i] = p[j] => i = j }

Shuffled(s, p) == [i \in 1 .. Len(s) |-> s[p[i]]]

\* --------------------------------------------------------------- entities
CLASS_SAMURAI   == "Street Samurai"
CLASS_NETRUNNER == "Netrunner"
CLASS_MEDIC     == "Chrome Medic"
Classes == {CLASS_SAMURAI, CLASS_NETRUNNER, CLASS_MEDIC}

CLASS_STATS(c) ==
    CASE c = CLASS_SAMURAI ->
           [hp |-> 120, max_hp |-> 120, hack_skill |-> 15, melee_bonus |-> 8,
            ranged_bonus |-> 2, heal_power |-> 0, weapon |-> "Katana",
            weapon_type |-> "melee", weapon_dmg |-> 14, armor |-> "Leather Jacket",
            armor_def |-> 3, vision |-> 6]
      [] c = CLASS_NETRUNNER ->
           [hp |-> 80, max_hp |-> 80, hack_skill |-> 85, melee_bonus |-> 0,
            ranged_bonus |-> 4, heal_power |-> 0, weapon |-> "Pistol",
            weapon_type |-> "ranged", weapon_dmg |-> 10, armor |-> "Synth Coat",
            armor_def |-> 1, vision |-> 8]
      [] c = CLASS_MEDIC ->
           [hp |-> 100, max_hp |-> 100, hack_skill |-> 40, melee_bonus |-> 3,
            ranged_bonus |-> 3, heal_power |-> 20, weapon |-> "Stun Baton",
            weapon_type |-> "melee", weapon_dmg |-> 10, armor |-> "Kevlar Vest",
            armor_def |-> 4, vision |-> 7]

\* Player.__init__
Player(c) ==
    LET st == CLASS_STATS(c) IN
    [char_class |-> c, x |-> 0, y |-> 0, hp |-> st.hp, max_hp |-> st.max_hp,
     hack_skill |-> st.hack_skill, melee_bonus |-> st.melee_bonus,
     ranged_bonus |-> st.ranged_bonus, heal_power |-> st.heal_power,
     weapon |-> st.weapon, weapon_type |-> st.weapon_type,
     weapon_dmg |-> st.weapon_dmg, armor |-> st.armor, armor_def |-> st.armor_def,
     credits |-> 50, keycards |-> 0, data_chips |-> 0, inventory |-> << >>,
     stim_turns |-> 0, stim_bonus |-> 0, auto_pickup |-> TRUE,
     levels_cleared |-> 0, turns_taken |-> 0, vision |-> st.vision]

\* Player.take_damage without "if self.hp < 0: self.hp = 0"
player_take_damage_noclamp(p, dmg) ==
    [p EXCEPT !.hp = p.hp - Max(1, dmg - p.armor_def)]

\* Player.take_damage
player_take_damage(p, dmg) ==
    LET actual == Max(1, dmg - p.armor_def)
        h == p.hp - actual
    IN  [p EXCEPT !.hp = IF h < 0 THEN 0 ELSE h]

\* Player.heal
heal(p, amount) == [p EXCEPT !.hp = Min(p.max_hp, p.hp + amount)]

RECURSIVE FirstNamed(_, _, _)
FirstNamed(inv, name, i) ==
    IF i > Len(inv) THEN 0
    ELSE IF inv[i] = name THEN i ELSE FirstNamed(inv, name, i + 1)

Pop(s, i) == [j \in 1 .. (Len(s) - 1) |-> IF j < i THEN s[j] ELSE s[j + 1]]

\* Player.use_medkit / use_stim: the player after use, or the player
\* unchanged when the inventory holds no such item.
use_medkit(p) ==
    LET i == FirstNamed(p.inventory, "Medkit", 1) IN
    IF i = 0 THEN p
    ELSE [heal(p, 30) EXCEPT !.inventory = Pop(p.inventory, i)]

use_stim(p) ==
    LET i == FirstNamed(p.inventory, "Stim Pack", 1) IN
    IF i = 0 THEN p
    ELSE [p EXCEPT !.stim_turns = 10, !.stim_bonus = 5,
                   !.inventory = Pop(p.inventory, i)]

\* Player.deal_melee_damage / deal_ranged_damage; r is the randint draw
deal_melee_damage(p, r) == Max(1, p.weapon_dmg + p.melee_bonus + p.stim_bonus + r)

deal_ranged_damage(p, r) == Max(1, p.weapon_dmg + p.ranged_bonus + p.stim_bonus + r)

\* Player.tick_stim
tick_stim(p) ==
    IF p.stim_turns > 0
    THEN [p EXCEPT !.stim_turns = p.stim_turns - 1,
                   !.stim_bonus = IF p.stim_turns - 1 <= 0 THEN 0 ELSE p.stim_bonus]
    ELSE p

EnemyNames == {"Security Drone", "Gang Member", "Corporate Guard", "Turret",
               "Netrunner ICE"}

ENEMY_TYPES(n) ==
    CASE n = "Security Drone" ->
           [hp |-> 25, attack |-> 8, defense |-> 2, behavior |-> "patrol", credits |-> 15]
      [] n = "Gang Member" ->
           [hp |-> 30, attack |-> 10, defense |-> 1, behavior |-> "aggressive", credits |-> 20]
      [] n = "Corporate Guard" ->
           [hp |-> 45, attack |-> 12, defense |-> 5, behavior |-> "methodical", credits |-> 30]
      [] n = "Turret" ->
           [hp |-> 35, attack |-> 16, defense |-> 8, behavior |-> "stationary", credits |-> 25]
      [] n = "Netrunner ICE" ->
           [hp |-> 20, attack |-> 6, defense |-> 1, behavior |-> "wander", credits |-> 10]

\* int(v * (1.0 + (level_num - 1) * 0.15)); the integer form agrees with the
\* floating-point one for every template value and every level 1..9.
Scaled(v, lvl) == (v * (100 + 15 * (lvl - 1))) \div 100

\* Enemy.__init__; dir is the random.choice of patrol_dir.
Enemy(etype, x, y, lvl, dir) ==
    LET t == ENEMY_TYPES(etype) IN
    [name |-> etype, x |-> x, y |-> y, hp |-> Scaled(t.hp, lvl),
     attack |-> Scaled(t.attack, lvl), defense |-> Scaled(t.defense, lvl),
     behavior |-> t.behavior, credits |-> Scaled(t.credits, lvl),
     alert |-> FALSE, patrol_dir |-> dir, disabled |-> FALSE]

\* "return self.hp >= 0" in place of "return self.hp > 0"
alive_nonneg(e) == e.hp >= 0

\* Enemy.alive / Player.alive
alive(e) == e.hp > 0

\* Enemy.take_damage with "actual = dmg - self.defense", the floor of 1 left out
enemy_take_damage_nofloor(e, dmg) ==
    LET h == e.hp - (dmg - e.defense)
    IN  [e EXCEPT !.hp = IF h < 0 THEN 0 ELSE h]

\* Enemy.take_damage
enemy_take_damage(e, dmg) ==
    LET actual == Max(1, dmg - e.defense)
        h == e.hp - actual
    IN  [e EXCEPT !.hp = IF h < 0 THEN 0 ELSE h]

\* Enemy._enemy_at: another living enemy stands on (x, y)
enemy_at(i, x, y, es) ==
    \E j \in 1 .. Len(es) : j # i /\ alive(es[j]) /\ es[j].x = x /\ es[j].y = y


\* Enemy._has_line_of_sight: the Bresenham walk from (x0, y0) to (tx, ty)
RECURSIVE LosWalk(_, _, _, _, _, _, _, _, _, _)
LosWalk(m, x0, y0, tx, ty, ddx, ddy, sx, sy, err) ==
    IF x0 = tx /\ y0 = ty THEN TRUE
    ELSE IF ~InBounds(x0, y0) THEN FALSE
    ELSE IF m[y0][x0] \in OPAQUE_TILES THEN FALSE
    ELSE LET e2 == 2 * err
             stepx == e2 > 0 - ddy
             stepy == e2 < ddx
         IN  LosWalk(m, IF stepx THEN x0 + sx ELSE x0, IF stepy THEN y0 + sy ELSE y0,
                     tx, ty, ddx, ddy, sx, sy,
                     err - (IF stepx THEN ddy ELSE 0) + (IF stepy THEN ddx ELSE 0))

has_line_of_sight(m, x0, y0, tx, ty) ==
    LosWalk(m, x0, y0, tx, ty, Abs(tx - x0), Abs(ty - y0),
            IF tx > x0 THEN 1 ELSE -1, IF ty > y0 THEN 1 ELSE -1,
            Abs(tx - x0) - Abs(ty - y0))

max_radius == 20

\* The value _chase produces when the trace-back indexes visited with None.
KeyError == << "KeyError" >>

\* One neighbour of the cell c in the search loop of _chase.
Visit(m, st, c, d, g, blocked) ==
    LET n == << c[1] + d[1], c[2] + d[2] >> IN
    IF n \in DOMAIN st.visited THEN st
    ELSE IF ~InBounds(n[1], n[2]) THEN st
    ELSE IF m[n[2]][n[1]] \in BLOCKING_TILES THEN st
    ELSE IF n # g /\ n \in blocked THEN st
    ELSE [visited |-> (n :> c) @@ st.visited, queue |-> Append(st.queue, n)]

\* The four neighbours of c, in the order of the loop.
VisitAll(m, st, c, g, blocked) ==
    CHOOSE r \in
        { Visit(m, v3, c, DIRS4[4], g, blocked) : v3 \in
            { Visit(m, v2, c, DIRS4[3], g, blocked) : v2 \in
                { Visit(m, v1, c, DIRS4[2], g, blocked) : v1 \in
                    { Visit(m, st, c, DIRS4[1], g, blocked) } } } } : TRUE

\* The breadth-first search of _chase; the result is the visited map
\* (cell -> predecessor) when the goal was dequeued, and << >> otherwise.
RECURSIVE Search(_, _, _, _, _)
Search(m, st, s, g, blocked) ==
    IF st.queue = << >> THEN << >>
    ELSE LET c == Head(st.queue)
             st0 == [st EXCEPT !.queue = Tail(st.queue)]
         IN  IF c = g THEN st.visited
             ELSE IF Abs(c[1] - s[1]) + Abs(c[2] - s[2]) >= max_radius
                  THEN CHOOSE r \in { Search(m, v, s, g, blocked) : v \in { st0 } } : TRUE
             ELSE CHOOSE r \in { Search(m, v, s, g, blocked) :
                                    v \in { VisitAll(m, st0, c, g, blocked) } } : TRUE

NoCell == << -9, -9 >>

\* "while visited[step] != (sx, sy): step = visited[step]"
RECURSIVE TraceBack(_, _, _)
TraceBack(visited, step, s) ==
    IF step = NoCell THEN KeyError
    ELSE IF visited[step] = s THEN << step[1] - s[1], step[2] - s[2] >>
    ELSE CHOOSE r \in { TraceBack(visited, v, s) : v \in { visited[step] } } : TRUE

\* _chase that always takes the greedy step
chase_greedy(i, px, py, m, es) ==
    LET s == << es[i].x, es[i].y >>
        g == << px, py >>
        dx == IF g[1] = s[1] THEN 0 ELSE IF g[1] > s[1] THEN 1 ELSE -1
        dy == IF g[2] = s[2] THEN 0 ELSE IF g[2] > s[2] THEN 1 ELSE -1
    IN  IF Abs(g[1] - s[1]) >= Abs(g[2] - s[2]) THEN << dx, 0 >> ELSE << 0, dy >>

\* Enemy._chase for enemy i of es
chase(i, px, py, m, es) ==
    LET s == << es[i].x, es[i].y >>
        g == << px, py >>
        blocked == { << es[j].x, es[j].y >> : j \in { k \in 1 .. Len(es) : k # i /\ alive(es[k]) } }
        visited == Search(m, [visited |-> (s :> NoCell), queue |-> << s >>], s, g, blocked)
    IN  IF visited # << >> THEN TraceBack(visited, g, s)
        ELSE LET dx == IF g[1] = s[1] THEN 0 ELSE IF g[1] > s[1] THEN 1 ELSE -1
                 dy == IF g[2] = s[2] THEN 0 ELSE IF g[2] > s[2] THEN 1 ELSE -1
             IN  IF Abs(g[1] - s[1]) >= Abs(g[2] - s[2]) THEN << dx, 0 >> ELSE << 0, dy >>

Dist(e, p) == Abs(e.x - p.x) + Abs(e.y - p.y)

\* "self.alert and dist <= 8": an alerted enemy gives chase within this range
in_leash_short(e, dist) == e.alert /\ dist <= 5
in_leash(e, dist) == e.alert /\ dist <= 8

\* "self.alert = True" in the detection branches; the flag is assigned
\* nowhere else in take_turn
alert_after_reset(e, detected) == detected
alert_after(e, detected) == e.alert \/ detected

\* The branch of Enemy.take_turn that picks the step of a moving enemy:
\* [alert, step, mode]; rnd is the random.choice drawn by a methodical or
\* wandering enemy.
choose_step(i, p, m, es, rnd) ==
    LET e == es[i]
        dist == Dist(e, p)
    IN  IF e.behavior = "aggressive" \/ in_leash(e, dist)
        THEN [alert |-> e.alert, step |-> chase(i, p.x, p.y, m, es), mode |-> "chase"]
        ELSE IF e.behavior = "patrol"
        THEN IF dist <= 5 /\ has_line_of_sight(m, e.x, e.y, p.x, p.y)
             THEN [alert |-> alert_after(e, TRUE),
                   step |-> chase(i, p.x, p.y, m, es), mode |-> "chase"]
             ELSE [alert |-> alert_after(e, FALSE), step |-> e.patrol_dir, mode |-> "patrol"]
        ELSE IF e.behavior = "methodical"
        THEN IF dist <= 6 /\ has_line_of_sight(m, e.x, e.y, p.x, p.y)
             THEN [alert |-> alert_after(e, TRUE),
                   step |-> chase(i, p.x, p.y, m, es), mode |-> "chase"]
             ELSE IF e.alert
             THEN [alert |-> alert_after(e, FALSE),
                   step |-> chase(i, p.x, p.y, m, es), mode |-> "chase"]
             ELSE [alert |-> alert_after(e, FALSE), step |-> rnd, mode |-> "random"]
        ELSE IF e.behavior = "wander"
        THEN [alert |-> e.alert, step |-> rnd, mode |-> "random"]
        ELSE [alert |-> e.alert, step |-> << 0, 0 >>, mode |-> "none"]

\* The lists random.choice draws from in take_turn
WANDER_CHOICES == {<<0, 1>>, <<0, -1>>, <<1, 0>>, <<-1, 0>>, <<0, 0>>}
METHODICAL_CHOICES == {<<0, 1>>, <<0, -1>>, <<1, 0>>, <<-1, 0>>}
StepDraws(e) ==
    IF e.behavior = "wander" THEN WANDER_CHOICES
    ELSE IF e.behavior = "methodical" THEN METHODICAL_CHOICES
    ELSE {<<0, 0>>}
\* The turret's test in take_turn
turret_fires_nolos(e, p, m) == Dist(e, p) <= 5
turret_fires(e, p, m) ==
    Dist(e, p) <= 5 /\ has_line_of_sight(m, e.x, e.y, p.x, p.y)

\* Enemy.take_turn for enemy i, ch being the step chosen by choose_step and
\* var the randint of a bump attack: [enemies, player, result, error]
take_turn(i, p, m, es, ch, var) ==
    LET e == es[i]
        same == [enemies |-> es, player |-> p, result |-> "none", error |-> FALSE]
    IN  IF e.disabled \/ ~alive(e) THEN same
        ELSE IF e.behavior = "stationary"
        THEN IF turret_fires(e, p, m) THEN [same EXCEPT !.result = "shoot"] ELSE same
        ELSE IF ch.step = KeyError
             THEN [enemies |-> [es EXCEPT ![i].alert = ch.alert], player |-> p,
                   result |-> "none", error |-> TRUE]
             ELSE LET nx == e.x + ch.step[1]
                      ny == e.y + ch.step[2]
                      e1 == [e EXCEPT !.alert = ch.alert]
                  IN  IF nx = p.x /\ ny = p.y
                      THEN [enemies |-> [es EXCEPT ![i] = e1],
                            player |-> player_take_damage(p, Max(1, e.attack + var)),
                            result |-> "attack", error |-> FALSE]
                      ELSE IF /\ InBounds(nx, ny)
                              /\ m[ny][nx] \notin BLOCKING_TILES
                              /\ ~enemy_at(i, nx, ny, es)
                      THEN LET nnx == nx + e.patrol_dir[1]
                               nny == ny + e.patrol_dir[2]
                               rev == /\ e.behavior = "patrol"
                                      /\ \/ ~InBounds(nnx, nny)
                                         \/ m[nny][nnx] \in BLOCKING_TILES
                               e2 == [e1 EXCEPT !.x = nx, !.y = ny,
                                         !.patrol_dir = IF rev
                                                        THEN << 0 - e.patrol_dir[1], 0 - e.patrol_dir[2] >>
                                                        ELSE e.patrol_dir]
                           IN  [enemies |-> [es EXCEPT ![i] = e2], player |-> p,
                                result |-> "none", error |-> FALSE]
                      ELSE [enemies |-> [es EXCEPT ![i] = e1], player |-> p,
                            result |-> "none", error |-> FALSE]

\* ------------------------------------------------- items, shop, hacking
WEAPON_RANGE(w) ==
    CASE w = "Pistol" -> 6
      [] w = "SMG" -> 5
      [] w = "Ono-Sendai Zapper" -> 4
      [] OTHER -> 6

\* _line_of_sight (the player's): the same walk without the bounds test
RECURSIVE SightWalk(_, _, _, _, _, _, _, _, _, _)
SightWalk(m, cx, cy, x1, y1, ddx, ddy, sx, sy, err) ==
    IF cx = x1 /\ cy = y1 THEN TRUE
    ELSE IF m[cy][cx] \in OPAQUE_TILES THEN FALSE
    ELSE LET e2 == 2 * err
             stepx == e2 > 0 - ddy
             stepy == e2 < ddx
         IN  SightWalk(m, IF stepx THEN cx + sx ELSE cx, IF stepy THEN cy + sy ELSE cy,
                       x1, y1, ddx, ddy, sx, sy,
                       err - (IF stepx THEN ddy ELSE 0) + (IF stepy THEN ddx ELSE 0))

line_of_sight(m, x0, y0, x1, y1) ==
    SightWalk(m, x0, y0, x1, y1, Abs(x1 - x0), Abs(y1 - y0),
              IF x1 > x0 THEN 1 ELSE -1, IF y1 > y0 THEN 1 ELSE -1,
              Abs(x1 - x0) - Abs(y1 - y0))

\* find_shoot_target: index of the closest living enemy in range and in
\* sight (the first such on ties), 0 when there is none.
RECURSIVE ScanTargets(_, _, _, _, _, _)
ScanTargets(p, es, m, i, best, best_dist) ==
    IF i > Len(es) THEN best
    ELSE LET e == es[i]
             dist == Dist(e, p)
         IN  IF /\ alive(e)
                /\ dist <= WEAPON_RANGE(p.weapon)
                /\ dist < best_dist
                /\ line_of_sight(m, p.x, p.y, e.x, e.y)
             THEN ScanTargets(p, es, m, i + 1, i, dist)
             ELSE ScanTargets(p, es, m, i + 1, best, best_dist)

\* The scan without the line-of-sight test: the closest living enemy in range
find_shoot_target_blind(p, es, m) ==
    LET inr == { i \in 1 .. Len(es) :
                   alive(es[i]) /\ Dist(es[i], p) <= WEAPON_RANGE(p.weapon) }
    IN  IF inr = {} THEN 0
        ELSE CHOOSE i \in inr :
               \A j \in inr : \/ Dist(es[i], p) < Dist(es[j], p)
                               \/ (Dist(es[i], p) = Dist(es[j], p) /\ i <= j)

find_shoot_target(p, es, m) == ScanTargets(p, es, m, 1, 0, WEAPON_RANGE(p.weapon) + 1)

\* Item(name, x, y, item_type, **props); val is the amount of a credits
\* item and the value of a data chip.
Item(name, x, y, item_type, val) ==
    [name |-> name, x |-> x, y |-> y, item_type |-> item_type, val |-> val]

\* _pickup_item, the effect on the player
pickup_item(p, it) ==
    CASE it.item_type = "credits" -> [p EXCEPT !.credits = @ + it.val]
      [] it.item_type = "keycard" -> [p EXCEPT !.keycards = @ + 1]
      [] it.item_type = "data_chip" ->
           [p EXCEPT !.data_chips = @ + 1, !.credits = @ + it.val]
      [] it.item_type = "weapon" ->
           [p EXCEPT !.weapon = it.name, !.weapon_type = "ranged",
                     !.weapon_dmg = IF it.name = "Pistol" THEN 10 ELSE 15]
      [] it.item_type = "armor" -> [p EXCEPT !.armor = it.name, !.armor_def = it.val]
      [] OTHER -> [p EXCEPT !.inventory = Append(@, it.name)]

\* The loop "for it in items[:]: if it is on the player's cell: pick it up":
\* [player, items]
RECURSIVE PickupHere(_, _, _, _)
PickupHere(p, its, i, kept) ==
    IF i > Len(its) THEN [player |-> p, items |-> kept]
    ELSE IF its[i].x = p.x /\ its[i].y = p.y
         THEN PickupHere(pickup_item(p, its[i]), its, i + 1, kept)
         ELSE PickupHere(p, its, i + 1, Append(kept, its[i]))

\* get_shop_stock
Offer(name, type, price, wtype, damage, def) ==
    [name |-> name, type |-> type, price |-> price, weapon_type |-> wtype,
     damage |-> damage, armor_def |-> def]

\* get_shop_stock with "if level_num == 2" for the SMG
get_shop_stock_smg2(lvl) ==
    << Offer("Medkit", "consumable", 40 + lvl * 5, "", 0, 0),
       Offer("Stim Pack", "consumable", 60 + lvl * 5, "", 0, 0) >>
    \o (IF lvl = 2 THEN << Offer("SMG", "weapon", 180, "ranged", 15, 0) >> ELSE << >>)
    \o (IF lvl >= 3 THEN << Offer("Kevlar Vest", "armor", 100, "", 0, 4) >> ELSE << >>)
    \o (IF lvl >= 4 THEN << Offer("EMP Grenade", "consumable", 80 + lvl * 5, "", 0, 0) >>
        ELSE << >>)
    \o (IF lvl >= 5 THEN << Offer("Kiroshi Body Armor", "armor", 300, "", 0, 8) >> ELSE << >>)
    \o (IF lvl >= 6 THEN << Offer("Kusanagi Blade", "weapon", 200, "melee", 18, 0),
                            Offer("Ono-Sendai Zapper", "weapon", 300, "ranged", 20, 0) >>
        ELSE << >>)

get_shop_stock(lvl) ==
    << Offer("Medkit", "consumable", 40 + lvl * 5, "", 0, 0),
       Offer("Stim Pack", "consumable", 60 + lvl * 5, "", 0, 0) >>
    \o (IF lvl >= 2 THEN << Offer("SMG", "weapon", 180, "ranged", 15, 0) >> ELSE << >>)
    \o (IF lvl >= 3 THEN << Offer("Kevlar Vest", "armor", 100, "", 0, 4) >> ELSE << >>)
    \o (IF lvl >= 4 THEN << Offer("EMP Grenade", "consumable", 80 + lvl * 5, "", 0, 0) >>
        ELSE << >>)
    \o (IF lvl >= 5 THEN << Offer("Kiroshi Body Armor", "armor", 300, "", 0, 8) >> ELSE << >>)
    \o (IF lvl >= 6 THEN << Offer("Kusanagi Blade", "weapon", 200, "melee", 18, 0),
                            Offer("Ono-Sendai Zapper", "weapon", 300, "ranged", 20, 0) >>
        ELSE << >>)

\* ENTER on an offer without the test "player.credits >= item['price']"
purchase_on_credit(p, item) ==
    LET p1 == [p EXCEPT !.credits = @ - item.price] IN
    CASE item.type = "weapon" ->
           [p1 EXCEPT !.weapon = item.name, !.weapon_type = item.weapon_type,
                      !.weapon_dmg = item.damage]
      [] item.type = "armor" ->
           [p1 EXCEPT !.armor = item.name, !.armor_def = item.armor_def]
      [] OTHER -> [p1 EXCEPT !.inventory = Append(@, item.name)]

\* ENTER on an offer in shop_screen
purchase(p, item) ==
    IF p.credits >= item.price
    THEN LET p1 == [p EXCEPT !.credits = @ - item.price] IN
         CASE item.type = "weapon" ->
                [p1 EXCEPT !.weapon = item.name, !.weapon_type = item.weapon_type,
                           !.weapon_dmg = item.damage]
           [] item.type = "armor" ->
                [p1 EXCEPT !.armor = item.name, !.armor_def = item.armor_def]
           [] OTHER -> [p1 EXCEPT !.inventory = Append(@, item.name)]
    ELSE p

\* shop_screen: the ENTER presses of one visit, as indices into the stock
RECURSIVE shop_screen(_, _, _, _)
shop_screen(p, lvl, buys, i) ==
    IF i > Len(buys) THEN p
    ELSE shop_screen(purchase(p, get_shop_stock(lvl)[buys[i]]), lvl, buys, i + 1)

\* _find_spawn_pos: the first free neighbour of (cx, cy), NoCell when none
SPAWN_OFFSETS == << <<-1, 0>>, <<1, 0>>, <<0, -1>>, <<0, 1>>,
                    <<-1, -1>>, <<1, -1>>, <<-1, 1>>, <<1, 1>> >>

RECURSIVE SpawnScan(_, _, _, _, _)
SpawnScan(m, es, cx, cy, i) ==
    IF i > Len(SPAWN_OFFSETS) THEN NoCell
    ELSE LET nx == cx + SPAWN_OFFSETS[i][1]
             ny == cy + SPAWN_OFFSETS[i][2]
         IN  IF /\ InBounds(nx, ny)
                /\ m[ny][nx] \notin BLOCKING_TILES
                /\ ~\E j \in 1 .. Len(es) : alive(es[j]) /\ es[j].x = nx /\ es[j].y = ny
             THEN << nx, ny >>
             ELSE SpawnScan(m, es, cx, cy, i + 1)

find_spawn_pos(m, es, cx, cy) == SpawnScan(m, es, cx, cy, 1)

\* The failure branch with the new drone left unalerted
hack_failed_quiet(es, m, tx, ty, spawn, dir) ==
    LET pos == find_spawn_pos(m, es, tx, ty) IN
    IF spawn /\ pos # NoCell
    THEN Append(es, Enemy("Security Drone", pos[1], pos[2], 1, dir))
    ELSE es

\* hack_terminal_effects after a failed minigame: spawn is random() < 0.3,
\* dir the new drone's patrol_dir draw.
hack_failed(es, m, tx, ty, spawn, dir) ==
    LET pos == find_spawn_pos(m, es, tx, ty) IN
    IF spawn /\ pos # NoCell
    THEN Append(es, [Enemy("Security Drone", pos[1], pos[2], 1, dir) EXCEPT !.alert = TRUE])
    ELSE es

\* The disabling loop without its test of the enemy's name
hack_disable_anytype(es, tx, ty) ==
    [i \in 1 .. Len(es) |->
        IF /\ alive(es[i])
           /\ Abs(es[i].x - tx) <= 5 /\ Abs(es[i].y - ty) <= 5
        THEN [es[i] EXCEPT !.disabled = TRUE, !.hp = 0]
        ELSE es[i]]

\* hack_terminal_effects after a won minigame
hack_disable(es, tx, ty) ==
    [i \in 1 .. Len(es) |->
        IF /\ alive(es[i])
           /\ Abs(es[i].x - tx) <= 5 /\ Abs(es[i].y - ty) <= 5
           /\ es[i].name \in {"Security Drone", "Turret"}
        THEN [es[i] EXCEPT !.disabled = TRUE, !.hp = 0]
        ELSE es[i]]

\* The unlock loop writing TILE_DOOR where it writes TILE_DOOR_OPEN
hack_unlock_closed(m, tx, ty) ==
    [y \in YS |-> [x \in XS |->
        IF /\ Abs(x - tx) <= 4 /\ Abs(y - ty) <= 4
           /\ m[y][x] = TILE_DOOR_LOCKED
        THEN TILE_DOOR
        ELSE m[y][x]]]

\* The unlock loop opening closed doors as well as locked ones
hack_unlock_any(m, tx, ty) ==
    [y \in YS |-> [x \in XS |->
        IF /\ Abs(x - tx) <= 4 /\ Abs(y - ty) <= 4
           /\ m[y][x] \in {TILE_DOOR, TILE_DOOR_LOCKED}
        THEN TILE_DOOR_OPEN
        ELSE m[y][x]]]

\* hack_terminal_effects: "Unlock nearby locked doors"
hack_unlock(m, tx, ty) ==
    [y \in YS |-> [x \in XS |->
        IF /\ Abs(x - tx) <= 4 /\ Abs(y - ty) <= 4
           /\ m[y][x] = TILE_DOOR_LOCKED
        THEN TILE_DOOR_OPEN
        ELSE m[y][x]]]

\* Offsets scanned for a terminal or for Raven, and for a door
NEAR5 == << <<-1, 0>>, <<1, 0>>, <<0, -1>>, <<0, 1>>, <<0, 0>> >>

\* Index into offs of the first offset whose cell satisfies the test, 0 if none
RECURSIVE FirstTerminal(_, _, _, _)
FirstTerminal(m, px, py, i) ==
    IF i > Len(NEAR5) THEN 0
    ELSE LET tx == px + NEAR5[i][1]
             ty == py + NEAR5[i][2]
         IN  IF InBounds(tx, ty) /\ m[ty][tx] = TILE_TERMINAL THEN i
             ELSE FirstTerminal(m, px, py, i + 1)

RECURSIVE FirstDoor(_, _, _, _)
FirstDoor(m, px, py, i) ==
    IF i > Len(DIRS4) THEN 0
    ELSE LET tx == px + DIRS4[i][1]
             ty == py + DIRS4[i][2]
         IN  IF InBounds(tx, ty) /\ m[ty][tx] \in {TILE_DOOR, TILE_DOOR_LOCKED} THEN i
             ELSE FirstDoor(m, px, py, i + 1)

\* ------------------------------------------------------------------ state
VARIABLES
    pc,          \* position in generate_level / main
    level_num,
    game_map,
    rooms,       \* accepted rooms, in acceptance order
    attempts,    \* room-placement attempts made
    doors,       \* door cells returned by place_doors
    locked_doors,
    player_start,
    stairs_pos,
    terminals,
    player,
    enemies,     \* the enemy list, dead ones included
    items,
    raven_pos,
    eidx,        \* index of the enemy whose turn is next in the enemy phase
    last,        \* how main resolved the last key ("" before the first)
    acted,       \* the take_turn calls of this iteration's enemy phase
    call         \* a function applied on its own: its arguments and its result

genvars == << rooms, attempts, doors, locked_doors, player_start, stairs_pos,
              terminals >>

playvars == << player, enemies, items, raven_pos, eidx, last, acted, call >>

vars == << pc, level_num, game_map, rooms, attempts, doors, locked_doors,
           player_start, stairs_pos, terminals, player, enemies, items,
           raven_pos, eidx, last, acted, call >>

num_rooms == Min(MAX_ROOMS, 5 + level_num)

NoPos == << -1, -1 >>

\* No function is being applied on its own.
NoCall == [fn |-> ""]

\* ------------------------------------------------- generate_level, steps
InitGen ==
    /\ pc = "rooms"
    /\ level_num \in 1 .. MAX_LEVELS
    /\ game_map = EmptyMap
    /\ rooms = << >>
    /\ attempts = 0
    /\ doors = << >>
    /\ locked_doors = << >>
    /\ player_start = NoPos
    /\ stairs_pos = NoPos
    /\ terminals = << >>
    /\ player = Player(CLASS_SAMURAI)
    /\ enemies = << >>
    /\ items = << >>
    /\ raven_pos = NoPos
    /\ eidx = 0
    /\ last = ""
    /\ acted = << >>
    /\ call = NoCall

\* The loop test with "attempts <= 200"
RoomLoopRunsLate == Len(rooms) < num_rooms /\ attempts <= MaxAttempts

\* "while len(rooms) < num_rooms and attempts < 200"
RoomLoopRuns == Len(rooms) < num_rooms /\ attempts < MaxAttempts

\* One iteration of the room-placement loop.
GenRoomAttempt ==
    /\ pc = "rooms"
    /\ RoomLoopRuns
    /\ \E w \in MIN_ROOM_SIZE .. MAX_ROOM_SIZE,
          h \in MIN_ROOM_SIZE .. (MAX_ROOM_SIZE - 2) :
         \E x \in 1 .. (MAP_W - w - 1), y \in 1 .. (MAP_H - h - 1) :
            LET new_room == Room(x, y, w, h) IN
            /\ attempts' = attempts + 1
            /\ IF \E i \in 1 .. Len(rooms) : intersects(new_room, rooms[i])
               THEN UNCHANGED << game_map, rooms >>
               ELSE /\ game_map' = place_room(game_map, new_room)
                    /\ rooms' = Append(rooms, new_room)
    /\ UNCHANGED << pc, level_num, doors, locked_doors, player_start, stairs_pos, terminals >>
    /\ UNCHANGED playvars

\* Connect each room to its predecessor.
GenCorridors ==
    /\ pc = "rooms"
    /\ ~RoomLoopRuns
    /\ \E coins \in [2 .. Len(rooms) -> BOOLEAN] :
         game_map' = ConnectAll(game_map, rooms, coins, 2)
    /\ pc' = "doors"
    /\ UNCHANGED << level_num, rooms, attempts, doors, locked_doors, player_start,
                    stairs_pos, terminals >>
    /\ UNCHANGED playvars

\* place_doors, player start, stairs, and the door-locking loop.
GenDoorsAndLocks ==
    /\ pc = "doors"
    /\ LET pd == place_doors(game_map, rooms)
           st == center(rooms[1])
           sp == center(rooms[Len(rooms)])
           m1 == [pd.map EXCEPT ![sp[2]][sp[1]] = TILE_STAIRS]
           locked_count == Min(level_num, 3)
       IN  \E p \in Perms(pd.doors) :
             LET res == LockDoors(m1, Shuffled(pd.doors, p), 1, << >>, locked_count, st, sp)
             IN  /\ game_map' = res.map
                 /\ doors' = pd.doors
                 /\ locked_doors' = res.locked
                 /\ player_start' = st
                 /\ stairs_pos' = sp
    /\ pc' = "terminals"
    /\ UNCHANGED << level_num, rooms, attempts, terminals >>
    /\ UNCHANGED playvars

\* Sequences of k distinct indices of the interior rooms rooms[1:-1]
\* (random.sample).
Samples(k) ==
    { s \in [1 .. k -> 2 .. (Len(rooms) - 1)] :
        \A i, j \in 1 .. k : s[i] = s[j] => i = j }

\* Place one terminal per sampled room, on a Floor cell only.
RECURSIVE PutTerminals(_, _, _, _, _)
PutTerminals(m, sel, pos, i, acc) ==
    IF i > Len(sel) THEN [map |-> m, terminals |-> acc]
    ELSE LET t == pos[i] IN
         IF m[t[2]][t[1]] = TILE_FLOOR
         THEN PutTerminals([m EXCEPT ![t[2]][t[1]] = TILE_TERMINAL], sel, pos, i + 1,
                           Append(acc, t))
         ELSE PutTerminals(m, sel, pos, i + 1, acc)

Interior(r) == { <<x, y>> : x \in (r.x + 1) .. (r.x + r.w - 2),
                            y \in (r.y + 1) .. (r.y + r.h - 2) }

GenTerminals ==
    /\ pc = "terminals"
    /\ LET n_interior == Max(0, Len(rooms) - 2)
           k == Min(2 + (level_num \div 2), n_interior)
       IN  \E sel \in Samples(k) :
             \E pos \in [1 .. k -> UNION { Interior(rooms[sel[i]]) : i \in 1 .. k }] :
                /\ \A i \in 1 .. k : pos[i] \in Interior(rooms[sel[i]])
                /\ LET res == PutTerminals(game_map, sel, pos, 1, << >>)
                   IN  /\ game_map' = res.map
                       /\ terminals' = res.terminals
    /\ pc' = "placed"
    /\ UNCHANGED << level_num, rooms, attempts, doors, locked_doors, player_start,
                    stairs_pos >>
    /\ UNCHANGED playvars

NextGen ==
    \/ GenRoomAttempt
    \/ GenCorridors
    \/ GenDoorsAndLocks
    \/ GenTerminals

SpecGen == InitGen /\ [][NextGen]_vars

\* -------------------------------------- generate_level, the entity part
RECURSIVE PlaceAll(_, _, _)
PlaceAll(m, rs, i) ==
    IF i > Len(rs) THEN m ELSE PlaceAll(place_room(m, rs[i]), rs, i + 1)

\* The inner loop of place_enemies for one room; ds are the draws
\* (cell, type, patrol_dir) of its iterations.
RECURSIVE PlaceInRoom(_, _, _, _, _, _)
PlaceInRoom(m, lvl, start, ds, j, acc) ==
    IF j > Len(ds) \/ Len(acc) >= 3 + lvl * 2 THEN acc
    ELSE LET d == ds[j] IN
         IF d.cell = start THEN PlaceInRoom(m, lvl, start, ds, j + 1, acc)
         ELSE IF m[d.cell[2]][d.cell[1]] \in {TILE_FLOOR, TILE_CORRIDOR}
         THEN PlaceInRoom(m, lvl, start, ds, j + 1,
                          Append(acc, Enemy(d.etype, d.cell[1], d.cell[2], lvl, d.dir)))
         ELSE PlaceInRoom(m, lvl, start, ds, j + 1, acc)

\* place_enemies: rooms[1:] in order; draws[r] are the draws made for room r.
RECURSIVE place_enemies(_, _, _, _, _, _, _)
place_enemies(m, rs, lvl, start, draws, r, acc) ==
    IF r > Len(rs) \/ Len(acc) >= 3 + lvl * 2 THEN acc
    ELSE place_enemies(m, rs, lvl, start, draws, r + 1,
                       PlaceInRoom(m, lvl, start, draws[r], 1, acc))

\* place_items: each draw yields an item only on a Floor or Corridor cell.
RECURSIVE place_items(_, _, _, _)
place_items(m, ds, i, acc) ==
    IF i > Len(ds) THEN acc
    ELSE LET d == ds[i] IN
         IF m[d.cell[2]][d.cell[1]] \in {TILE_FLOOR, TILE_CORRIDOR}
         THEN place_items(m, ds, i + 1,
                          Append(acc, Item(d.name, d.cell[1], d.cell[2], d.item_type, d.val)))
         ELSE place_items(m, ds, i + 1, acc)

\* generate_level for one outcome s of its random draws: the rooms accepted
\* (s.rs), the corridor coins, the terminal cells, the enemy and item draws
\* and Raven's cell.
generate_level(s) ==
    LET rs == s.rs
        m1 == ConnectAll(PlaceAll(EmptyMap, rs, 1), rs, s.coins, 2)
        pd == place_doors(m1, rs)
        st == center(rs[1])
        sp == center(rs[Len(rs)])
        m2 == [pd.map EXCEPT ![sp[2]][sp[1]] = TILE_STAIRS]
        lk == LockDoors(m2, pd.doors, 1, << >>, Min(s.lvl, 3), st, sp)
        tm == PutTerminals(lk.map, s.term, s.term, 1, << >>)
        rv == IF /\ s.lvl >= 3 /\ Len(rs) > 2 /\ s.raven # NoPos
                 /\ tm.map[s.raven[2]][s.raven[1]] = TILE_FLOOR
              THEN s.raven ELSE NoPos
    IN  [map |-> tm.map, rooms |-> rs, start |-> st, stairs |-> sp,
         doors |-> pd.doors, locked |-> lk.locked, terminals |-> tm.terminals,
         enemies |-> place_enemies(tm.map, rs, s.lvl, st, s.en, 2, << >>),
         items |-> place_items(tm.map, s.its, 1, << >>),
         raven |-> rv]

\* The draws of s are draws generate_level can make: rooms inside the
\* placement ranges that do not intersect, one to min(3, 1 + level // 2)
\* enemy draws per room after the first, each in the room's interior, and one
\* terminal cell per interior room up to 2 + level // 2.
ValidDraws(s) ==
    LET rs == s.rs
        n == Len(rs)
    IN  /\ n >= 1 /\ n <= Min(MAX_ROOMS, 5 + s.lvl)
        /\ \A i \in 1 .. n :
              /\ rs[i].w \in MIN_ROOM_SIZE .. MAX_ROOM_SIZE
              /\ rs[i].h \in MIN_ROOM_SIZE .. (MAX_ROOM_SIZE - 2)
              /\ rs[i].x \in 1 .. (MAP_W - rs[i].w - 1)
              /\ rs[i].y \in 1 .. (MAP_H - rs[i].h - 1)
        /\ \A i, j \in 1 .. n : i # j => ~intersects(rs[i], rs[j])
        /\ DOMAIN s.coins = 2 .. n
        /\ Len(s.en) = n
        /\ \A r \in 2 .. n :
              /\ Len(s.en[r]) \in 1 .. Min(3, 1 + (s.lvl \div 2))
              /\ \A j \in 1 .. Len(s.en[r]) :
                    /\ s.en[r][j].cell \in Interior(rs[r])
                    /\ s.en[r][j].etype \in EnemyNames
        /\ Len(s.term) = Min(2 + (s.lvl \div 2), Max(0, n - 2))
        /\ \A i \in 1 .. Len(s.term) :
              \E r \in 2 .. (n - 1) : s.term[i] \in Interior(rs[r])
        /\ \A i \in 1 .. Len(s.its) :
              \E r \in 1 .. n : s.its[i].cell \in Interior(rs[r])
        /\ s.raven # NoPos =>
              /\ s.lvl >= 3 /\ n > 2
              /\ \E r \in 2 .. (n - 1) : s.raven \in Interior(rs[r])
        /\ (s.lvl >= 3 /\ n > 2) => s.raven # NoPos

\* ---------------------------------------------------------------- main
MaxTurns == 5

\* Turns are explored up to MaxTurns per level of depth.
TurnCap == level_num * MaxTurns

\* The outcomes explored of random.randint(-2, 3) in deal_melee_damage, of
\* randint(-3, 2) in deal_ranged_damage, of randint(-2, 2) in an enemy's
\* attack or shot: the ends of each range.
MeleeDraws == {-2, 3}
RangedDraws == {-3, 2}
AttackDraws == {-2, 2}
\* random.randint(20, 60) of a successful hack, at its ends
HackBonusDraws == {20, 60}
PatrolDirs == {<<0, 1>>, <<0, -1>>, <<1, 0>>, <<-1, 0>>}
\* The patrol_dir draws explored for a drone spawned by a failed hack
SpawnDirs == {<<0, 1>>}
\* ENTER presses explored in one shop visit
MaxBuys == 1

\* "player.turns_taken += 1; player.tick_stim()"
BeginTurn(p) == tick_stim([p EXCEPT !.turns_taken = @ + 1])

\* Credits for a kill
Reward(p, e) == IF alive(e) THEN p ELSE [p EXCEPT !.credits = @ + e.credits]

\* From the action to the enemy phase of the same iteration
ToEnemyPhase ==
    /\ pc' = "enemies"
    /\ eidx' = 1
    /\ acted' = << >>

TurnKey == pc = "input" /\ player.turns_taken < TurnCap

\* next(e for e in enemies if e.alive and e.x == x and e.y == y), 0 for None
FirstLiving(es, x, y) ==
    LET hits == { j \in 1 .. Len(es) : alive(es[j]) /\ es[j].x = x /\ es[j].y = y }
    IN  IF hits = {} THEN 0 ELSE CHOOSE j \in hits : \A k \in hits : j <= k

\* The level entry that starts over with a fresh Player of the same class
EnterLevelFresh(lv, p) ==
    /\ game_map' = lv.map
    /\ rooms' = lv.rooms
    /\ attempts' = attempts
    /\ doors' = lv.doors
    /\ locked_doors' = lv.locked
    /\ player_start' = lv.start
    /\ stairs_pos' = lv.stairs
    /\ terminals' = lv.terminals
    /\ enemies' = lv.enemies
    /\ items' = lv.items
    /\ raven_pos' = lv.raven
    /\ player' = [Player(p.char_class) EXCEPT !.x = lv.start[1], !.y = lv.start[2],
                                              !.levels_cleared = p.levels_cleared,
                                              !.turns_taken = p.turns_taken]
    /\ call' = call

\* The level the run enters: the outcome lv of generate_level
EnterLevel(lv, p) ==
    /\ game_map' = lv.map
    /\ rooms' = lv.rooms
    /\ attempts' = attempts
    /\ doors' = lv.doors
    /\ locked_doors' = lv.locked
    /\ player_start' = lv.start
    /\ stairs_pos' = lv.stairs
    /\ terminals' = lv.terminals
    /\ enemies' = lv.enemies
    /\ items' = lv.items
    /\ raven_pos' = lv.raven
    /\ player' = [p EXCEPT !.x = lv.start[1], !.y = lv.start[2]]
    /\ call' = call

\* The action is resolved on the same level and the iteration goes on to
\* the enemy phase.
Resolve(p, es, m, its, tag) ==
    /\ player' = p
    /\ enemies' = es
    /\ game_map' = m
    /\ items' = its
    /\ last' = tag
    /\ ToEnemyPhase
    /\ UNCHANGED << level_num, genvars, raven_pos, call >>

\* "continue": back to the input poll, the enemy phase not run.
Continue(p, its, tag) ==
    /\ player' = p
    /\ items' = its
    /\ last' = tag
    /\ pc' = "input"
    /\ acted' = << >>
    /\ UNCHANGED << level_num, game_map, genvars, enemies, raven_pos, eidx, call >>

\* The walkable tiles with Wall among them
WALKABLE_TILES_wall == {TILE_FLOOR, TILE_CORRIDOR, TILE_DOOR_OPEN, TILE_STAIRS,
                        TILE_TERMINAL, TILE_SHOP_TILE, TILE_WALL}

WALKABLE_TILES == {TILE_FLOOR, TILE_CORRIDOR, TILE_DOOR_OPEN, TILE_STAIRS,
                   TILE_TERMINAL, TILE_SHOP_TILE}

\* ------------------------------------------------- level-entry samples
Draw(t, x, y, d) == [etype |-> t, cell |-> << x, y >>, dir |-> d]

\* cls: the classes of the players a sample is entered with
Sample(lvl, cls, rs, en, term, its, raven) ==
    [lvl |-> lvl, cls |-> cls, rs |-> rs, coins |-> [i \in 2 .. Len(rs) |-> TRUE],
     en |-> en, term |-> term, its |-> its, raven |-> raven]

ItemDraw(name, x, y, item_type, val) ==
    [name |-> name, cell |-> << x, y >>, item_type |-> item_type, val |-> val]

RoomA == Room(1, 1, 4, 4)
NearB == Room(6, 1, 4, 4)
FarB  == Room(7, 1, 4, 4)
RoomC == Room(11, 1, 4, 4)

\* The outcomes of generate_level the runs enter.  A draw on the stairs cell
\* places no enemy.
EntrySamples ==
    { Sample(1, {CLASS_SAMURAI, CLASS_NETRUNNER}, << RoomA, NearB >>,
             << << >>, << Draw("Gang Member", 7, 2, << 0, 1 >>) >> >>,
             << >>, << >>, NoPos),
      Sample(1, {CLASS_SAMURAI}, << RoomA, NearB >>,
             << << >>, << Draw("Corporate Guard", 7, 3, << 0, 1 >>) >> >>,
             << >>, << >>, NoPos),
      Sample(1, Classes, << RoomA, NearB >>,
             << << >>, << Draw("Turret", 8, 3, << 0, 1 >>) >> >>,
             << >>, << >>, NoPos),
      Sample(1, {CLASS_MEDIC}, << RoomA, NearB >>,
             << << >>, << Draw("Turret", 8, 2, << 0, 1 >>) >> >>,
             << >>, << ItemDraw("Medkit", 2, 3, "consumable", 30) >>, NoPos),
      Sample(1, {CLASS_NETRUNNER}, << RoomA, NearB, RoomC >>,
             << << >>, << Draw("Security Drone", 8, 2, << 0, 1 >>) >>,
                << Draw("Turret", 12, 3, << 0, 1 >>) >> >>,
             << << 7, 3 >> >>, << >>, NoPos),
      Sample(1, {CLASS_NETRUNNER}, << RoomA, NearB, RoomC >>,
             << << >>, << Draw("Netrunner ICE", 8, 2, << 0, 1 >>) >>,
                << Draw("Turret", 13, 2, << 0, 1 >>) >> >>,
             << << 7, 3 >> >>, << >>, NoPos),
      Sample(2, {CLASS_MEDIC, CLASS_SAMURAI}, << RoomA, NearB >>,
             << << >>, << Draw("Turret", 7, 3, << 0, 1 >>) >> >>,
             << >>, << >>, NoPos),
      Sample(MAX_LEVELS, {CLASS_SAMURAI}, << RoomA, NearB >>,
             << << >>, << Draw("Turret", 8, 3, << 0, 1 >>) >> >>,
             << >>, << >>, NoPos) }
    \cup
    { Sample(2, {CLASS_SAMURAI}, << RoomA, FarB >>,
             << << >>, << Draw("Netrunner ICE", 8, 3, << 0, 1 >>),
                          Draw("Security Drone", 8, 3, d) >> >>,
             << >>, << >>, NoPos) : d \in {<< 0, 1 >>, << -1, 0 >>} }

\* The outcomes of generate_level explored when a level is entered.
LevelDraws(lvl, c) ==
    { s \in EntrySamples : s.lvl = lvl /\ c \in s.cls /\ ValidDraws(s) }

\* The victory test taking every level for the last
is_last_level_early(lvl) == lvl >= 1

\* "if level_num >= MAX_LEVELS" on a confirmed descent
is_last_level(lvl) == lvl >= MAX_LEVELS

\* The unlock that keeps the keycard
use_keycard_free(p) == p

\* "player.keycards -= 1"
use_keycard(p) == [p EXCEPT !.keycards = @ - 1]

\* A movement key whose (dx, dy) is one of ds
Move(ds) ==
    /\ TurnKey
    /\ \E d \in ds :
         LET p1 == BeginTurn(player)
             nx == player.x + d[1]
             ny == player.y + d[2]
             tile == game_map[ny][nx]
             tgt == FirstLiving(enemies, nx, ny)
         IN  IF ~InBounds(nx, ny)
             THEN Resolve(p1, enemies, game_map, items, "rejected")
             ELSE IF raven_pos = << nx, ny >>
             THEN Resolve(p1, enemies, game_map, items, "rejected")
             ELSE IF tgt # 0
             THEN \E r \in MeleeDraws :
                    LET dmg == deal_melee_damage(p1, r)
                        e1 == enemy_take_damage(enemies[tgt], dmg)
                    IN  Resolve(Reward(p1, e1), [enemies EXCEPT ![tgt] = e1], game_map,
                                items, "valid")
             ELSE IF tile = TILE_DOOR
             THEN Resolve([p1 EXCEPT !.x = nx, !.y = ny], enemies,
                          [game_map EXCEPT ![ny][nx] = TILE_DOOR_OPEN], items, "valid")
             ELSE IF tile = TILE_DOOR_LOCKED
             THEN Resolve(p1, enemies, game_map, items, "rejected")
             ELSE IF tile \in WALKABLE_TILES
             THEN LET p2 == [p1 EXCEPT !.x = nx, !.y = ny]
                      pk == IF p2.auto_pickup THEN PickupHere(p2, items, 1, << >>)
                            ELSE [player |-> p2, items |-> items]
                  IN  IF tile # TILE_STAIRS
                      THEN Resolve(pk.player, enemies, game_map, pk.items, "valid")
                      ELSE \/ Continue(pk.player, pk.items, "stairs_declined")
                           \/ LET p3 == [pk.player EXCEPT !.levels_cleared = @ + 1] IN
                              IF is_last_level(level_num)
                              THEN /\ player' = p3
                                   /\ items' = pk.items
                                   /\ last' = "victory"
                                   /\ pc' = "over"
                                   /\ acted' = << >>
                                   /\ UNCHANGED << level_num, game_map, genvars, enemies,
                                                   raven_pos, eidx, call >>
                              ELSE /\ level_num' = level_num + 1
                                   /\ \E s \in LevelDraws(level_num + 1, player.char_class) :
                                         EnterLevel(generate_level(s), p3)
                                   /\ last' = "descended"
                                   /\ pc' = "input"
                                   /\ acted' = << >>
                                   /\ eidx' = eidx
             ELSE Resolve(p1, enemies, game_map, items, "rejected")

\* A movement key (arrows, w/a/s/d).
KeyMove ==
    /\ TurnKey
    /\ Move(PatrolDirs)

\* f
KeyFire ==
    /\ TurnKey
    /\ LET p1 == BeginTurn(player) IN
       IF p1.weapon_type # "ranged"
       THEN Resolve(p1, enemies, game_map, items, "rejected")
       ELSE LET tgt == find_shoot_target(p1, enemies, game_map) IN
            IF tgt = 0
            THEN Resolve(p1, enemies, game_map, items, "rejected")
            ELSE \E r \in RangedDraws :
                   LET dmg == deal_ranged_damage(p1, r)
                       e1 == enemy_take_damage(enemies[tgt], dmg)
                   IN  Resolve(Reward(p1, e1), [enemies EXCEPT ![tgt] = e1], game_map,
                               items, "valid")

\* hack_terminal_effects at (tx, ty) when hack_minigame has returned False,
\* after a lockout or an abort alike
HackLost(p1, tx, ty) ==
    \E spawn \in BOOLEAN, dir \in SpawnDirs :
       Resolve(p1, hack_failed(enemies, game_map, tx, ty, spawn, dir),
               game_map, items, "valid")

\* h; won is the outcome of the ICE Breaker minigame.
KeyHack ==
    /\ TurnKey
    /\ LET p1 == BeginTurn(player)
           k == FirstTerminal(game_map, player.x, player.y, 1)
       IN  IF k = 0
           THEN Resolve(p1, enemies, game_map, items, "rejected")
           ELSE LET tx == player.x + NEAR5[k][1]
                    ty == player.y + NEAR5[k][2]
                IN  \/ HackLost(p1, tx, ty)
                    \/ \E bonus \in HackBonusDraws :
                         Resolve([p1 EXCEPT !.credits = @ + bonus],
                                 hack_disable(enemies, tx, ty),
                                 hack_unlock(game_map, tx, ty), items, "valid")

RavenNear ==
    /\ raven_pos # NoPos
    /\ \E i \in 1 .. Len(NEAR5) :
          << player.x + NEAR5[i][1], player.y + NEAR5[i][2] >> = raven_pos

\* e
KeyInteract ==
    /\ TurnKey
    /\ LET p1 == BeginTurn(player)
           k == FirstDoor(game_map, player.x, player.y, 1)
       IN  IF RavenNear
           THEN \E n \in 0 .. MaxBuys :
                  \E buys \in [1 .. n -> 1 .. Len(get_shop_stock(level_num))] :
                     Resolve(shop_screen(p1, level_num, buys, 1), enemies, game_map,
                             items, "valid")
           ELSE IF k # 0 /\ game_map[player.y + DIRS4[k][2]][player.x + DIRS4[k][1]] = TILE_DOOR
           THEN Resolve(p1, enemies,
                        [game_map EXCEPT ![player.y + DIRS4[k][2]][player.x + DIRS4[k][1]]
                                            = TILE_DOOR_OPEN],
                        items, "valid")
           ELSE IF k # 0 /\ p1.keycards > 0
           THEN Resolve(use_keycard(p1), enemies,
                        [game_map EXCEPT ![player.y + DIRS4[k][2]][player.x + DIRS4[k][1]]
                                            = TILE_DOOR_OPEN],
                        items, "valid")
           ELSE LET pk == PickupHere(p1, items, 1, << >>) IN
                Resolve(pk.player, enemies, game_map, pk.items,
                        "valid")

\* space
KeyWait ==
    /\ TurnKey
    /\ Resolve(BeginTurn(player), enemies, game_map, items, "valid")

\* m
KeyMedkit ==
    /\ pc = "input"
    /\ Continue(use_medkit(player), items, last)

\* t
KeyStim ==
    /\ pc = "input"
    /\ Continue(use_stim(player), items, last)

\* i: inventory_screen, closed at once or after ENTER on a Medkit or a Stim Pack
KeyInventory ==
    /\ pc = "input"
    /\ \/ Continue(player, items, last)
       \/ Continue(use_medkit(player), items, last)
       \/ Continue(use_stim(player), items, last)

\* q
KeyQuit ==
    /\ pc = "input"
    /\ pc' = "over"
    /\ last' = "quit"
    /\ acted' = << >>
    /\ UNCHANGED << level_num, game_map, genvars, player, enemies, items, raven_pos,
                    eidx, call >>

\* Any other key, 'a' as the auto-pickup toggle included: the movement
\* branch takes 'a' first.
KeyOther ==
    /\ pc = "input"
    /\ Continue(player, items, last)

\* One iteration of "for e in enemies" in the enemy phase.
EnemyStep ==
    /\ pc = "enemies"
    /\ eidx <= Len(enemies)
    /\ LET e == enemies[eidx] IN
       IF alive(e) /\ ~e.disabled
       THEN \E ch0 \in { choose_step(eidx, player, game_map, enemies, << 0, 0 >>) } :
            \E rnd \in (IF ch0.mode = "random" THEN StepDraws(e)
                        ELSE {ch0.step}) :
              LET ch == [ch0 EXCEPT !.step = rnd]
                  hits == \/ e.behavior = "stationary" /\ turret_fires(e, player, game_map)
                          \/ /\ e.behavior # "stationary"
                             /\ ch.step # KeyError
                             /\ e.x + ch.step[1] = player.x
                             /\ e.y + ch.step[2] = player.y
              IN  \E var \in (IF hits THEN AttackDraws ELSE {0}) :
                    \E t \in { take_turn(eidx, player, game_map, enemies, ch, var) } :
                      /\ enemies' = t.enemies
                      /\ player' = IF t.result = "shoot"
                                   THEN player_take_damage(t.player, Max(1, e.attack + var))
                                   ELSE t.player
                      /\ acted' = Append(acted, [idx |-> eidx,
                                                 mode |-> IF e.behavior = "stationary"
                                                          THEN t.result ELSE ch.mode,
                                                 alert |-> e.alert,
                                                 hp |-> e.hp,
                                                 disabled |-> e.disabled,
                                                 dist |-> Dist(e, player),
                                                 los |-> has_line_of_sight(
                                                     game_map, e.x, e.y,
                                                     player.x, player.y)])
                      /\ pc' = IF t.error THEN "crashed" ELSE "enemies"
       ELSE UNCHANGED << enemies, player, acted, pc >>
    /\ eidx' = eidx + 1
    /\ UNCHANGED << level_num, game_map, genvars, items, raven_pos, last, call >>

\* The Chrome Medic passive heal
passive_heal(p) ==
    IF /\ p.char_class = CLASS_MEDIC /\ p.heal_power > 0
       /\ p.turns_taken % 5 = 0 /\ p.hp < p.max_hp
    THEN LET heal_amt == Min(p.heal_power \div 4, p.max_hp - p.hp) IN
         IF heal_amt > 0 THEN heal(p, heal_amt) ELSE p
    ELSE p

\* After the enemy phase: passive heal, then the death check.
EndOfTurn ==
    /\ pc = "enemies"
    /\ eidx > Len(enemies)
    /\ player' = passive_heal(player)
    /\ pc' = IF alive(player') THEN "input" ELSE "over"
    /\ last' = ""
    /\ acted' = << >>
    /\ UNCHANGED << level_num, game_map, genvars, enemies, items, raven_pos, eidx, call >>

Next ==
    \/ KeyMove
    \/ KeyFire
    \/ KeyHack
    \/ KeyInteract
    \/ KeyWait
    \/ KeyMedkit
    \/ KeyStim
    \/ KeyInventory
    \/ KeyQuit
    \/ KeyOther
    \/ EnemyStep
    \/ EndOfTurn

\* HP a run carries into a level below the first, when low
LowHp == 10
StartLevels == {1, 2, MAX_LEVELS}

\* The player entering level lvl: fresh at level 1; below it, either after
\* MaxTurns turns unharmed or one turn before 2 * MaxTurns with LowHp left.
Carried(c, lvl) ==
    IF lvl = 1 THEN { Player(c) }
    ELSE { [Player(c) EXCEPT !.levels_cleared = lvl - 1,
                             !.turns_taken = (lvl - 1) * MaxTurns],
           [Player(c) EXCEPT !.levels_cleared = lvl - 1,
                             !.turns_taken = lvl * MaxTurns - 1,
                             !.hp = LowHp] }

\* The main loop at the entry of a level.
Init ==
    /\ level_num \in StartLevels
    /\ \E c \in Classes :
         \E s \in LevelDraws(level_num, c), p \in Carried(c, level_num) :
            LET lv == generate_level(s) IN
            /\ game_map = lv.map
            /\ rooms = lv.rooms
            /\ doors = lv.doors
            /\ locked_doors = lv.locked
            /\ player_start = lv.start
            /\ stairs_pos = lv.stairs
            /\ terminals = lv.terminals
            /\ enemies = lv.enemies
            /\ items = lv.items
            /\ raven_pos = lv.raven
            /\ player = [p EXCEPT !.x = lv.start[1], !.y = lv.start[2]]
    /\ attempts = 0
    /\ pc = "input"
    /\ eidx = 0
    /\ last = ""
    /\ acted = << >>
    /\ call = NoCall

Spec == Init /\ [][Next]_vars

\* ------------------------------------------------------------ properties
LevelBuilt == pc \in {"terminals", "placed"}

\* C1: in every generated level, after the door-locking step, the flood fill
\* from the player start over non-blocking tiles reaches the stairs cell.
C1_StairsReachable ==
    LevelBuilt => can_reach(game_map, player_start, stairs_pos)

\* A level of three rooms joined by carved corridor cells, with the stairs
\* away from the player start.
C1_Witness ==
    /\ LevelBuilt
    /\ Len(rooms) = 3
    /\ player_start # stairs_pos
    /\ game_map[stairs_pos[2]][stairs_pos[1]] = TILE_STAIRS
    /\ \E y \in YS, x \in XS : game_map[y][x] = TILE_CORRIDOR
    /\ center(rooms[1])[2] # center(rooms[2])[2]
    /\ can_reach(game_map, player_start, stairs_pos)

\* ------------------------------------------------- main loop properties
\* Indices of the enemies owed a turn, in list order
RECURSIVE LivingFrom(_, _)
LivingFrom(es, i) ==
    IF i > Len(es) THEN << >>
    ELSE IF alive(es[i]) /\ ~es[i].disabled
         THEN << i >> \o LivingFrom(es, i + 1)
         ELSE LivingFrom(es, i + 1)

ActedIdx == [k \in 1 .. Len(acted) |-> acted[k].idx]

\* C2: when the key resolves to a rejected or no-op action, no enemy takes a
\* turn in that iteration and the turn counter does not advance.
C2_RejectedActionIsFree ==
    [][ last' = "rejected" =>
          /\ acted' = << >>
          /\ player'.turns_taken = player.turns_taken ]_vars

\* C3: permadeath.  Once the player's HP is 0 it stays 0 and the input is
\* never polled again.
C3_Permadeath ==
    [][ player.hp = 0 => (player'.hp = 0 /\ pc' # "input") ]_vars

\* C4: after a validated action that leaves the player on the level, every
\* enemy that is alive and not disabled has taken exactly one turn, in list
\* order, when the next input is polled.
C4_EnemyPhaseAfterValidAction ==
    /\ (pc = "enemies" /\ eidx > Len(enemies) /\ last = "valid")
          => ActedIdx = LivingFrom(enemies, 1)
    /\ (pc = "input" /\ last \in {"valid", "stairs_declined"})
          => LivingFrom(enemies, 1) = << >>

\* C5: a rejected action changes nothing but the message log: turns_taken,
\* the stim counters, the player's HP and position, the enemies and the
\* tiles are as before the key.
C5_RejectedChangesNothing ==
    [][ (pc = "input" /\ last' = "rejected") =>
          /\ player'.turns_taken = player.turns_taken
          /\ player'.stim_turns = player.stim_turns
          /\ player'.stim_bonus = player.stim_bonus
          /\ player'.hp = player.hp
          /\ player'.x = player.x /\ player'.y = player.y
          /\ enemies' = enemies
          /\ game_map' = game_map ]_vars

\* C7: the player's HP stays within 0 .. max_hp.
C7_HpInRange == 0 <= player.hp /\ player.hp <= player.max_hp

\* An enemy's attack or shot has brought the player to 0 HP.
C7_Witness ==
    /\ pc = "enemies"
    /\ acted # << >>
    /\ player.hp = 0
    /\ \E k \in 1 .. Len(acted) : acted[k].mode \in {"shoot", "chase"}

Defeated(e) == e.hp = 0 \/ e.disabled

\* The enemy list with the defeated enemies taken off the map
OffMap(es) ==
    [i \in 1 .. Len(es) |->
        IF es[i].hp = 0 \/ es[i].disabled THEN [es[i] EXCEPT !.x = -9, !.y = -9]
        ELSE es[i]]

\* C8: an enemy at 0 HP or disabled stays as it is for the rest of the
\* level; its turn leaves the player alone and counts as no turn; the other
\* enemies path and move, and the player bumps, as if it were not on the map.
C8_DefeatedEnemiesAreInert ==
    [][ /\ \A i \in 1 .. Len(enemies) :
              (Defeated(enemies[i]) /\ level_num' = level_num)
                  => (Len(enemies') >= i /\ enemies'[i] = enemies[i])
        /\ (pc = "enemies" /\ eidx <= Len(enemies) /\ Defeated(enemies[eidx]))
              => (player' = player /\ acted' = acted)
        /\ (/\ pc = "enemies" /\ eidx <= Len(enemies) /\ ~Defeated(enemies[eidx])
            /\ \E j \in 1 .. Len(enemies) : Defeated(enemies[j]))
              => /\ chase(eidx, player.x, player.y, game_map, enemies)
                      = chase(eidx, player.x, player.y, game_map, OffMap(enemies))
                 /\ \A d \in WANDER_CHOICES :
                       enemy_at(eidx, enemies[eidx].x + d[1], enemies[eidx].y + d[2], enemies)
                         = enemy_at(eidx, enemies[eidx].x + d[1], enemies[eidx].y + d[2],
                                    OffMap(enemies))
        /\ pc = "input"
              => \A d \in PatrolDirs :
                    FirstLiving(enemies, player.x + d[1], player.y + d[2])
                      = FirstLiving(OffMap(enemies), player.x + d[1], player.y + d[2])
      ]_vars

\* The player stands on the cell of a defeated enemy whose place in the
\* enemy phase has been passed without a turn.
C8_Witness ==
    /\ pc = "enemies"
    /\ \E i \in 1 .. Len(enemies) :
          /\ Defeated(enemies[i])
          /\ enemies[i].x = player.x /\ enemies[i].y = player.y
          /\ eidx > i
          /\ \A k \in 1 .. Len(acted) : acted[k].idx # i

\* C9: an alert flag that is True stays True for the rest of the level,
\* for methodical enemies and for every other enemy.
C9_AlertMonotone ==
    [][ \A i \in 1 .. Len(enemies) :
            (level_num' = level_num /\ enemies[i].alert)
                => (Len(enemies') >= i /\ enemies'[i].alert) ]_vars

\* A methodical enemy, alerted before its turn, took the turn with the
\* player out of detection and is still alerted.
C9_Witness ==
    \E k \in 1 .. Len(acted) :
        /\ enemies[acted[k].idx].behavior = "methodical"
        /\ acted[k].alert
        /\ (acted[k].dist > 6 \/ ~acted[k].los)
        /\ enemies[acted[k].idx].alert

\* C10 as stated: an alerted patrol enemy takes a chase step on every turn,
\* whatever the player's distance.
C10_AlwaysChases ==
    \A k \in 1 .. Len(acted) :
        (enemies[acted[k].idx].behavior = "patrol" /\ acted[k].alert)
            => acted[k].mode = "chase"

\* C10 amended: an alerted patrol enemy takes a chase step exactly on the
\* turns that find the player within Manhattan distance 8; farther away it
\* steps along its patrol direction.
C10_ChasesWithinRange ==
    \A k \in 1 .. Len(acted) :
        (enemies[acted[k].idx].behavior = "patrol" /\ acted[k].alert)
            => (acted[k].mode = "chase" <=> acted[k].dist <= 8)

\* An alerted patrol enemy gave chase with the player beyond its detection
\* range of 5.
C10_Witness ==
    \E k \in 1 .. Len(acted) :
        /\ enemies[acted[k].idx].behavior = "patrol"
        /\ acted[k].alert
        /\ acted[k].dist > 5 /\ acted[k].dist <= 8
        /\ acted[k].mode = "chase"

\* C11: a turret's turn is a shot only when the turret is alive and not
\* disabled, the player is within Manhattan distance 5, and the Bresenham
\* line from the turret to the player meets no opaque tile before the
\* player's cell.
C11_TurretShootsOnlyInSight ==
    \A k \in 1 .. Len(acted) :
        (enemies[acted[k].idx].behavior = "stationary" /\ acted[k].mode = "shoot")
            => /\ acted[k].hp > 0
               /\ ~acted[k].disabled
               /\ acted[k].dist <= 5
               /\ acted[k].los

\* A turret within distance 5 of the player, a wall on the line between
\* them, has taken its turn without a shot.
C11_Witness ==
    \E k \in 1 .. Len(acted) :
        /\ enemies[acted[k].idx].behavior = "stationary"
        /\ acted[k].dist <= 5
        /\ ~acted[k].los
        /\ acted[k].mode = "none"

\* ------------------------------------------------ take_damage on its own
\* The variables a specification does not use, at their values before a run
ParkedLevel ==
    /\ rooms = << >>
    /\ attempts = 0
    /\ doors = << >>
    /\ locked_doors = << >>
    /\ player_start = NoPos
    /\ stairs_pos = NoPos
    /\ terminals = << >>
    /\ items = << >>
    /\ raven_pos = NoPos
    /\ eidx = 0
    /\ last = ""
    /\ acted = << >>

Parked == level_num = 1 /\ ParkedLevel

\* Largest raw damage and largest defence drawn; the HP values drawn
MaxRaw == 16
MaxDefence == 6
HpDraws == {1, 2, 5, 10, 100}

\* A player, or an enemy, about to take a hit of call.raw
InitDamage ==
    /\ Parked
    /\ pc = "hit"
    /\ game_map = EmptyMap
    /\ \E who \in {"player", "enemy"} :
         /\ IF who = "player"
            THEN /\ \E c \in Classes, h \in HpDraws, a \in 0 .. MaxDefence :
                      player = [Player(c) EXCEPT !.hp = h, !.max_hp = Max(h, @),
                                                 !.armor_def = a]
                 /\ enemies = << >>
            ELSE /\ player = Player(CLASS_SAMURAI)
                 /\ \E n \in EnemyNames, h \in HpDraws, d \in 0 .. MaxDefence :
                      enemies = << [Enemy(n, 1, 1, 1, << 0, 1 >>)
                                       EXCEPT !.hp = h, !.defense = d] >>
         /\ \E raw \in 0 .. MaxRaw :
              call = [fn |-> "take_damage", who |-> who, raw |-> raw,
                      hp |-> IF who = "player" THEN player.hp ELSE enemies[1].hp,
                      defence |-> IF who = "player" THEN player.armor_def
                                  ELSE enemies[1].defense]

\* player.take_damage(raw)
PlayerHit ==
    /\ pc = "hit"
    /\ call.who = "player"
    /\ player' = player_take_damage(player, call.raw)
    /\ pc' = "hit_done"
    /\ UNCHANGED << level_num, game_map, genvars, enemies, items, raven_pos, eidx,
                    last, acted, call >>

\* enemy.take_damage(raw)
EnemyHit ==
    /\ pc = "hit"
    /\ call.who = "enemy"
    /\ enemies' = << enemy_take_damage(enemies[1], call.raw) >>
    /\ pc' = "hit_done"
    /\ UNCHANGED << level_num, game_map, genvars, player, items, raven_pos, eidx,
                    last, acted, call >>

SpecDamage == InitDamage /\ [][PlayerHit \/ EnemyHit]_vars

\* HP of the target of the hit
HitHp == IF call.who = "player" THEN player.hp ELSE enemies[1].hp

\* C12: take_damage lowers the target's HP by exactly max(1, raw - defence),
\* stopping at 0, so a hit on a target with HP > 0 removes at least 1 HP.
C12_DamageFloorAndClamp ==
    pc = "hit_done" =>
        LET actual == IF call.raw - call.defence >= 1 THEN call.raw - call.defence ELSE 1
        IN  /\ HitHp = (IF call.hp - actual >= 0 THEN call.hp - actual ELSE 0)
            /\ call.hp > 0 => HitHp < call.hp

\* The player with 100 HP and armour 0 hit with raw 15 is at 85 HP.
C12_Witness ==
    /\ pc = "hit_done"
    /\ call.who = "player" /\ call.hp = 100 /\ call.defence = 0 /\ call.raw = 15
    /\ player.hp = 85

\* ------------------------------------------ a door locked, then unlocked
\* The tiles a movement key takes the player onto: a Door opens on the bump
\* and is entered in the same move.
player_enters(tile) == tile = TILE_DOOR \/ tile \in WALKABLE_TILES

\* Terminal offsets drawn around the door for the unlocking hack
HackOffsets == {-5, -4, 0, 4}

\* The enemy lists drawn around the terminal t: one enemy on the edge of the
\* 5-cell square or one cell outside it, alive, and a dead drone inside.
EnemyDraws(t) ==
    { << Enemy(n, t[1] + o[1], t[2] + o[2], 1, << 0, 1 >>) >> :
         n \in {"Security Drone", "Turret", "Gang Member"},
         o \in {<< 5, -5 >>, << 6, 0 >>} }
    \cup { << [Enemy("Security Drone", t[1], t[2] + 1, 1, << 0, 1 >>) EXCEPT !.hp = 0] >> }

\* A level map with a Door on one of its Floor or Corridor cells, the player
\* on a walkable neighbour with one keycard, the terminal of the hack and
\* the enemies around it.
InitDoor ==
    /\ Parked
    /\ pc = "door"
    /\ \E m \in { generate_level(t).map : t \in { u \in EntrySamples : ValidDraws(u) } } :
       \E c \in XS \X YS, d \in PatrolDirs, ox \in HackOffsets, oy \in HackOffsets :
         /\ m[c[2]][c[1]] \in {TILE_FLOOR, TILE_CORRIDOR}
         /\ InBounds(c[1] + d[1], c[2] + d[2])
         /\ m[c[2] + d[2]][c[1] + d[1]] \in {TILE_FLOOR, TILE_CORRIDOR}
         /\ game_map = [m EXCEPT ![c[2]][c[1]] = TILE_DOOR]
         /\ player = [Player(CLASS_NETRUNNER) EXCEPT !.x = c[1] + d[1], !.y = c[2] + d[2],
                                                      !.keycards = 1]
         /\ call = [fn |-> "door", cell |-> c, term |-> << c[1] + ox, c[2] + oy >>]
         /\ enemies \in EnemyDraws(<< c[1] + ox, c[2] + oy >>)

\* generate_level: "game_map[dy][dx] = TILE_DOOR_LOCKED"
LockDoor ==
    /\ pc = "door"
    /\ game_map' = [game_map EXCEPT ![call.cell[2]][call.cell[1]] = TILE_DOOR_LOCKED]
    /\ pc' = "door_locked"
    /\ UNCHANGED << level_num, genvars, player, enemies, items, raven_pos, eidx,
                    last, acted, call >>

\* main, interact: a keycard is spent on the first adjacent locked door
UnlockByKeycard ==
    /\ pc = "door_locked"
    /\ LET k == FirstDoor(game_map, player.x, player.y, 1) IN
       /\ k # 0
       /\ game_map[player.y + DIRS4[k][2]][player.x + DIRS4[k][1]] = TILE_DOOR_LOCKED
       /\ player.keycards > 0
       /\ player' = [player EXCEPT !.keycards = @ - 1]
       /\ game_map' = [game_map EXCEPT ![player.y + DIRS4[k][2]][player.x + DIRS4[k][1]]
                                          = TILE_DOOR_OPEN]
    /\ pc' = "door_unlocked"
    /\ UNCHANGED << level_num, genvars, enemies, items, raven_pos, eidx, last, acted,
                    call >>

\* hack_terminal_effects after a won minigame at the terminal call.term
UnlockByHack ==
    /\ pc = "door_locked"
    /\ enemies' = hack_disable(enemies, call.term[1], call.term[2])
    /\ game_map' = hack_unlock(game_map, call.term[1], call.term[2])
    /\ \E bonus \in HackBonusDraws : player' = [player EXCEPT !.credits = @ + bonus]
    /\ pc' = "door_hacked"
    /\ UNCHANGED << level_num, genvars, items, raven_pos, eidx, last, acted, call >>

SpecDoor == InitDoor /\ [][LockDoor \/ UnlockByKeycard \/ UnlockByHack]_vars

\* The door's tile, and whether the unlocking reached it
DoorTile == game_map[call.cell[2]][call.cell[1]]
DoorUnlocked ==
    \/ pc = "door_unlocked"
    \/ /\ pc = "door_hacked"
       /\ Abs(call.cell[1] - call.term[1]) <= 4
       /\ Abs(call.cell[2] - call.term[2]) <= 4

code_length(lvl) == Min(3 + ((lvl - 1) \div 2), 6)

\* The symbols secrets and guesses are drawn from, and the deepest floor
\* whose code length is drawn
IceSymbols == {"A", "B", "1", "2", "Z"}
MaxIceLevel == 3

\* _ice_evaluate with "misplaced = total_shared", exact not subtracted
ice_evaluate_nosub(secret, guess) ==
    LET count(seq, sym) == Cardinality({ i \in 1 .. Len(seq) : seq[i] = sym })
        syms == { secret[i] : i \in 1 .. Len(secret) }
    IN  [exact |-> Cardinality({ i \in 1 .. Min(Len(secret), Len(guess)) :
                                    secret[i] = guess[i] }),
         misplaced |-> Cardinality({ sk \in syms \X (1 .. Len(secret)) :
                                       /\ sk[2] <= count(secret, sk[1])
                                       /\ sk[2] <= count(guess, sk[1]) })]

\* _ice_evaluate: zip counts the agreeing positions; the Counter intersection
\* keeps, for each symbol, the smaller of its two counts.
ice_evaluate(secret, guess) ==
    LET count(seq, sym) == Cardinality({ i \in 1 .. Len(seq) : seq[i] = sym })
        syms == { secret[i] : i \in 1 .. Len(secret) }
        exact == Cardinality({ i \in 1 .. Min(Len(secret), Len(guess)) :
                                 secret[i] = guess[i] })
        total_shared == Cardinality({ sk \in syms \X (1 .. Len(secret)) :
                                        /\ sk[2] <= count(secret, sk[1])
                                        /\ sk[2] <= count(guess, sk[1]) })
    IN  [exact |-> exact, misplaced |-> total_shared - exact]

\* A secret and a guess of the code length of some floor
InitIce ==
    /\ Parked
    /\ pc = "ice"
    /\ game_map = EmptyMap
    /\ player = Player(CLASS_NETRUNNER)
    /\ enemies = << >>
    /\ \E n \in { code_length(lvl) : lvl \in 1 .. MaxIceLevel } :
         \E secret \in [1 .. n -> IceSymbols], guess \in [1 .. n -> IceSymbols] :
            call = [fn |-> "_ice_evaluate", secret |-> secret, guess |-> guess,
                    exact |-> -1, misplaced |-> -1]

\* exact, misplaced = _ice_evaluate(secret, guess)
IceEvaluate ==
    /\ pc = "ice"
    /\ \E r \in { ice_evaluate(call.secret, call.guess) } :
         call' = [call EXCEPT !.exact = r.exact, !.misplaced = r.misplaced]
    /\ pc' = "ice_done"
    /\ UNCHANGED << level_num, game_map, genvars, player, enemies, items, raven_pos,
                    eidx, last, acted >>

SpecIce == InitIce /\ [][IceEvaluate]_vars

\* Sum over the symbols of syms of the smaller of the symbol's count in a
\* and its count in b
RECURSIVE SharedCount(_, _, _)
SharedCount(syms, a, b) ==
    IF syms = {} THEN 0
    ELSE LET sym == CHOOSE x \in syms : TRUE
             ca == Cardinality({ i \in 1 .. Len(a) : a[i] = sym })
             cb == Cardinality({ i \in 1 .. Len(b) : b[i] = sym })
         IN  (IF ca <= cb THEN ca ELSE cb) + SharedCount(syms \ {sym}, a, b)

\* C14: exact is the number of agreeing positions and misplaced is the sum
\* over the symbols of min(count in guess, count in secret) less exact; so
\* misplaced >= 0, exact + misplaced <= length, and exact = length exactly
\* when the guess is the secret.
C14_IceEvaluate ==
    pc = "ice_done" =>
        LET n == Len(call.secret) IN
        /\ call.exact = Cardinality({ i \in 1 .. n : call.guess[i] = call.secret[i] })
        /\ call.misplaced = SharedCount(IceSymbols, call.guess, call.secret) - call.exact
        /\ call.misplaced >= 0
        /\ call.exact + call.misplaced <= n
        /\ (call.exact = n) <=> (call.guess = call.secret)

\* Secret AB12 with guess BA12 scored (2, 2).
C14_Witness ==
    /\ pc = "ice_done"
    /\ call.secret = << "A", "B", "1", "2" >>
    /\ call.guess = << "B", "A", "1", "2" >>
    /\ call.exact = 2 /\ call.misplaced = 2

\* -------------------------------------------------------- hack_minigame
ICE_SYMBOLS == << "0", "1", "2", "3", "4", "5", "6", "7", "8", "9",
                  "A", "B", "C", "D", "E", "F" >>

\* _ice_params with "hack_skill > 70" for the top tier
ice_params_strict(p, lvl) ==
    LET pool == 8 + ((lvl - 1) \div 2)
                 - (IF p.hack_skill > 70 THEN 2 ELSE IF p.hack_skill >= 35 THEN 1 ELSE 0)
    IN  [code_length |-> code_length(lvl),
         max_attempts |-> 6 + (IF p.hack_skill > 70 THEN 2
                               ELSE IF p.hack_skill >= 35 THEN 1 ELSE 0),
         pool_size |-> Max(4, Min(pool, Len(ICE_SYMBOLS)))]

\* _ice_params: (code_length, max_attempts, pool_size)
ice_params(p, lvl) ==
    LET pool == 8 + ((lvl - 1) \div 2)
                 - (IF p.hack_skill >= 70 THEN 2 ELSE IF p.hack_skill >= 35 THEN 1 ELSE 0)
    IN  [code_length |-> code_length(lvl),
         max_attempts |-> 6 + (IF p.hack_skill >= 70 THEN 2
                               ELSE IF p.hack_skill >= 35 THEN 1 ELSE 0),
         pool_size |-> Max(4, Min(pool, Len(ICE_SYMBOLS)))]

\* "len(guesses) > max_attempts" in place of ">="
locked_out_late(guesses, max_attempts) == guesses > max_attempts
\* "if len(guesses) >= max_attempts": the lockout test after a counted guess
locked_out(guesses, max_attempts) == guesses >= max_attempts

\* The secrets drawn: the code the editor starts on, and another one
SecretDraws == { << "0", "0", "0" >>, << "1", "0", "5" >> }

\* hack_minigame before its first key.  call.guesses is len(guesses).
InitMinigame ==
    /\ Parked
    /\ pc = "minigame"
    /\ game_map = EmptyMap
    /\ enemies = << >>
    /\ player \in { Player(c) : c \in Classes }
    /\ \E secret \in SecretDraws :
         LET prm == ice_params(player, level_num) IN
         /\ Len(secret) = prm.code_length
         /\ \A i \in 1 .. Len(secret) :
               \E k \in 1 .. prm.pool_size : ICE_SYMBOLS[k] = secret[i]
         /\ call = [fn |-> "hack_minigame", secret |-> secret,
                    current |-> [i \in 1 .. prm.code_length |-> 0],
                    cursor |-> 0, guesses |-> 0]

MinigameKey(c) ==
    /\ pc = "minigame"
    /\ call' = c
    /\ UNCHANGED << level_num, game_map, genvars, player, enemies, items, raven_pos,
                    eidx, last, acted >>

\* LEFT / RIGHT
MiniCursor ==
    \E d \in {-1, 1} :
       /\ MinigameKey([call EXCEPT !.cursor =
                          (call.cursor + d) % ice_params(player, level_num).code_length])
       /\ pc' = pc

\* UP / DOWN
MiniSymbol ==
    \E d \in {1, -1} :
       /\ MinigameKey([call EXCEPT !.current[call.cursor + 1] =
                          (@ + d) % ice_params(player, level_num).pool_size])
       /\ pc' = pc

\* ENTER
MiniSubmit ==
    LET prm == ice_params(player, level_num)
        guess == [i \in 1 .. prm.code_length |-> ICE_SYMBOLS[call.current[i] + 1]]
    IN  IF ice_evaluate(call.secret, guess).exact = prm.code_length
        THEN MinigameKey(call) /\ pc' = "minigame_won"
        ELSE /\ MinigameKey([call EXCEPT !.guesses = @ + 1])
             /\ pc' = IF locked_out(call.guesses + 1, prm.max_attempts)
                      THEN "minigame_lost" ELSE pc

\* ESC
MiniAbort ==
    /\ MinigameKey(call)
    /\ pc' = "minigame_lost"

SpecMinigame ==
    InitMinigame /\ [][MiniCursor \/ MiniSymbol \/ MiniSubmit \/ MiniAbort]_vars

\* The symbols under the editor's indices
CurrentGuess == [i \in 1 .. Len(call.current) |-> ICE_SYMBOLS[call.current[i] + 1]]

\* C15: the minigame counts at most max_attempts guesses; a guess is counted
\* only when it differs from the secret; the game is won exactly on a
\* submitted guess equal to the secret, and lost as soon as the count
\* reaches max_attempts or on an abort, which counts nothing; a cursor move
\* or a symbol change counts nothing and ends nothing.
C15_MinigameAttempts ==
    [][ pc = "minigame" =>
          LET max_attempts == ice_params(player, level_num).max_attempts IN
          /\ call.guesses < max_attempts
          /\ call'.guesses <= max_attempts
          /\ call'.guesses \in {call.guesses, call.guesses + 1}
          /\ (call'.cursor # call.cursor \/ call'.current # call.current)
                => (call'.guesses = call.guesses /\ pc' = "minigame")
          /\ call'.guesses # call.guesses
                => (CurrentGuess # call.secret /\ call' = [call EXCEPT !.guesses = @ + 1])
          /\ pc' = "minigame_won"
                => (CurrentGuess = call.secret /\ call' = call)
          /\ pc' = "minigame_lost"
                => (call'.guesses = max_attempts \/ call' = call)
          /\ call'.guesses = max_attempts => pc' = "minigame_lost"
      ]_vars

\* The last of max_attempts wrong guesses has ended the game in a lockout,
\* the editor having been moved and changed on the way.
C15_Witness ==
    /\ pc = "minigame_lost"
    /\ call.guesses = ice_params(player, level_num).max_attempts
    /\ call.cursor # 0
    /\ call.current[1] # 0

\* C16: a successful hack at (tx, ty) disables, with HP 0, every living
\* Security Drone and Turret within 5 cells on both axes and leaves every
\* other enemy as it was; turns every DoorLocked within 4 cells on both axes
\* into DoorOpen and leaves every other tile as it was; and raises the
\* player's credits by an amount in 20 .. 60.
C16_HackEffects ==
    [][ pc' = "door_hacked" =>
          LET tx == call.term[1]
              ty == call.term[2]
          IN  /\ Len(enemies') = Len(enemies)
              /\ \A i \in 1 .. Len(enemies) :
                    IF /\ enemies[i].hp > 0
                       /\ enemies[i].name \in {"Security Drone", "Turret"}
                       /\ Abs(enemies[i].x - tx) <= 5 /\ Abs(enemies[i].y - ty) <= 5
                    THEN enemies'[i] = [enemies[i] EXCEPT !.disabled = TRUE, !.hp = 0]
                    ELSE enemies'[i] = enemies[i]
              /\ \A y \in YS, x \in XS :
                    IF /\ game_map[y][x] = TILE_DOOR_LOCKED
                       /\ Abs(x - tx) <= 4 /\ Abs(y - ty) <= 4
                    THEN game_map'[y][x] = TILE_DOOR_OPEN
                    ELSE game_map'[y][x] = game_map[y][x]
              /\ player'.credits - player.credits \in 20 .. 60
              /\ player' = [player EXCEPT !.credits = player'.credits]
      ]_vars

\* The hack has opened the locked door and disabled a turret on the edge
\* of its 5-cell square.
C16_Witness ==
    /\ pc = "door_hacked"
    /\ DoorTile = TILE_DOOR_OPEN
    /\ enemies[1].name = "Turret" /\ enemies[1].disabled /\ enemies[1].hp = 0
    /\ Abs(enemies[1].x - call.term[1]) = 5

\* C17: a hack that fails, by lockout or by abort, changes no tile, no
\* enemy that was there and no credits; at most it appends one alerted
\* Security Drone, on a non-blocking cell among the terminal's 8 neighbours
\* that holds no living enemy.
C17_FailedHack ==
    [][ LET k == FirstTerminal(game_map, player.x, player.y, 1)
            tx == player.x + NEAR5[k][1]
            ty == player.y + NEAR5[k][2]
            n == Len(enemies)
        IN  (TurnKey /\ k # 0 /\ HackLost(BeginTurn(player), tx, ty)) =>
              /\ game_map' = game_map
              /\ player'.credits = player.credits
              /\ player'.hp = player.hp
              /\ Len(enemies') \in {n, n + 1}
              /\ \A i \in 1 .. n : enemies'[i] = enemies[i]
              /\ Len(enemies') = n + 1 =>
                    LET drone == enemies'[n + 1] IN
                    /\ drone.name = "Security Drone"
                    /\ drone.alert /\ alive(drone) /\ ~drone.disabled
                    /\ Abs(drone.x - tx) <= 1 /\ Abs(drone.y - ty) <= 1
                    /\ << drone.x, drone.y >> # << tx, ty >>
                    /\ InBounds(drone.x, drone.y)
                    /\ game_map[drone.y][drone.x] \notin BLOCKING_TILES
                    /\ \A i \in 1 .. n :
                          alive(enemies[i]) =>
                             << enemies[i].x, enemies[i].y >> # << drone.x, drone.y >>
      ]_vars

\* A failed hack has just dispatched a drone east of the terminal, the cell
\* to its west, first in the scan, holding a living turret.
C17_Witness ==
    /\ pc = "enemies" /\ eidx = 1 /\ last = "valid"
    /\ Len(enemies) = 3
    /\ enemies[3].name = "Security Drone" /\ enemies[3].alert
    /\ game_map[enemies[3].y][enemies[3].x - 1] = TILE_TERMINAL
    /\ alive(enemies[1])
    /\ enemies[1].x = enemies[3].x - 2 /\ enemies[1].y = enemies[3].y

\* The credit rewards of the enemies whose HP a step takes from above 0 to 0
RECURSIVE KilledRewards(_, _, _)
KilledRewards(es, es2, i) ==
    IF i > Len(es) \/ i > Len(es2) THEN 0
    ELSE (IF es[i].hp > 0 /\ es2[i].hp = 0 THEN es[i].credits ELSE 0)
         + KilledRewards(es, es2, i + 1)

\* C18: whenever a player action (a melee bump, ranged fire or a successful
\* hack that disables it) takes an enemy's HP to 0, the player's credits
\* rise by that enemy's credit reward in the same action, on top of the
\* 20 .. 60 a successful hack downloads.
C18_KillPaysReward ==
    [][ (pc = "input" /\ level_num' = level_num
            /\ \E i \in 1 .. Len(enemies) : enemies[i].hp > 0 /\ enemies'[i].hp = 0) =>
          LET paid == player'.credits - player.credits
                         - KilledRewards(enemies, enemies', 1)
          IN  IF \E i \in 1 .. Len(enemies) : ~enemies[i].disabled /\ enemies'[i].disabled
              THEN paid \in 20 .. 60
              ELSE paid = 0
      ]_vars

MaxPresses == 2
CreditDraws == {0, 54, 55, 100, 180, 355}

\* Raven's shop opened on a level where Raven appears
InitShop ==
    /\ ParkedLevel
    /\ level_num \in 3 .. MAX_LEVELS
    /\ pc = "shop"
    /\ game_map = EmptyMap
    /\ enemies = << >>
    /\ \E c \in Classes, cr \in CreditDraws : player = [Player(c) EXCEPT !.credits = cr]
    /\ call = [fn |-> "shop_screen", selected |-> 0, presses |-> 0]

ShopKey(p, c) ==
    /\ pc = "shop"
    /\ player' = p
    /\ call' = c
    /\ UNCHANGED << level_num, pc, game_map, genvars, enemies, items, raven_pos,
                    eidx, last, acted >>

\* UP / DOWN
ShopSelect ==
    /\ pc = "shop"
    /\ \E d \in {-1, 1} :
          ShopKey(player, [call EXCEPT !.selected =
                              (@ + d) % Max(1, Len(get_shop_stock(level_num)))])

\* ENTER
ShopEnter ==
    /\ call.presses < MaxPresses
    /\ LET stock == get_shop_stock(level_num) IN
       IF call.selected < Len(stock)
       THEN ShopKey(purchase(player, stock[call.selected + 1]),
                    [call EXCEPT !.presses = @ + 1])
       ELSE ShopKey(player, [call EXCEPT !.presses = @ + 1])

\* c / q
ShopClose ==
    /\ pc = "shop"
    /\ pc' = "shop_closed"
    /\ UNCHANGED << level_num, game_map, genvars, player, enemies, items, raven_pos,
                    eidx, last, acted, call >>

SpecShop == InitShop /\ [][ShopSelect \/ ShopEnter \/ ShopClose]_vars

\* C20: the player's credits are never negative; an ENTER in the shop buys
\* the selected offer only when the credits cover its price, and then
\* deducts exactly the price; an ENTER on an offer the player cannot afford
\* leaves credits, weapon, armour and inventory as they were; no other key
\* of the shop changes the player.
C20_ShopPurchase ==
    [][ pc = "shop" =>
          LET item == get_shop_stock(level_num)[call.selected + 1]
              enter == call'.presses = call.presses + 1
              bought == \/ player'.weapon = item.name /\ item.type = "weapon"
                        \/ player'.armor = item.name /\ item.type = "armor"
                        \/ /\ player'.inventory = Append(player.inventory, item.name)
                           /\ item.type = "consumable"
          IN  /\ player.credits >= 0 /\ player'.credits >= 0
              /\ ~enter => player' = player
              /\ (enter /\ player.credits >= item.price) =>
                    /\ player'.credits = player.credits - item.price
                    /\ bought
              /\ (enter /\ player.credits < item.price) =>
                    /\ player'.credits = player.credits
                    /\ player'.weapon = player.weapon
                    /\ player'.weapon_dmg = player.weapon_dmg
                    /\ player'.armor = player.armor
                    /\ player'.armor_def = player.armor_def
                    /\ player'.inventory = player.inventory
      ]_vars

\* The Medkit bought with exactly its price, and a second ENTER on the
\* Kevlar Vest refused for want of credits.
C20_Witness ==
    /\ pc = "shop"
    /\ call.presses = 2
    /\ player.credits = 0
    /\ player.inventory = << "Medkit" >>
    /\ get_shop_stock(level_num)[call.selected + 1].name = "Kevlar Vest"
    /\ player.armor # "Kevlar Vest"

\* ------------------------------------------------ the main loop with a door
\* The main loop at the entry of a three-room level with a drone, a turret
\* and a terminal, whose map has a Door or a DoorLocked on one of its
\* corridor cells, the player holding kc keycards.
InitLocked ==
    /\ level_num = 1
    /\ \E c \in Classes :
         \E lv \in { generate_level(s) : s \in { t \in LevelDraws(1, c) : Len(t.rs) = 3 } } :
            /\ lv.enemies[1].name = "Security Drone"
            /\ \E cell \in { q \in XS \X YS : lv.map[q[2]][q[1]] = TILE_CORRIDOR },
                  tile \in {TILE_DOOR, TILE_DOOR_LOCKED}, kc \in 0 .. 1 :
                  /\ game_map = [lv.map EXCEPT ![cell[2]][cell[1]] = tile]
                  /\ rooms = lv.rooms
                  /\ doors = << cell >>
                  /\ locked_doors = IF tile = TILE_DOOR_LOCKED THEN << cell >> ELSE << >>
                  /\ player_start = lv.start
                  /\ stairs_pos = lv.stairs
                  /\ terminals = lv.terminals
                  /\ enemies = lv.enemies
                  /\ items = lv.items
                  /\ raven_pos = lv.raven
                  /\ player = [Player(c) EXCEPT !.x = lv.start[1], !.y = lv.start[2],
                                                !.keycards = kc]
    /\ attempts = 0
    /\ pc = "input"
    /\ eidx = 0
    /\ last = ""
    /\ acted = << >>
    /\ call = NoCall

SpecLocked == InitLocked /\ [][Next]_vars

\* Cells next to the player on the four axes
Beside(x, y) == Abs(player.x - x) + Abs(player.y - y) = 1

\* C21: within a level a tile changes only from Door or DoorLocked to
\* DoorOpen: a Door next to the player, by bump or interact; a DoorLocked
\* next to the player for one keycard, or within 4 cells of the terminal of
\* a successful hack.  Every other tile keeps its value, so no cell becomes
\* blocking.
C21_TileChanges ==
    [][ level_num' = level_num =>
          \A y \in YS, x \in XS :
             game_map'[y][x] # game_map[y][x] =>
                /\ pc = "input"
                /\ game_map'[y][x] = TILE_DOOR_OPEN
                /\ \/ game_map[y][x] = TILE_DOOR /\ Beside(x, y)
                   \/ /\ game_map[y][x] = TILE_DOOR_LOCKED
                      /\ Beside(x, y)
                      /\ player'.keycards = player.keycards - 1
                   \/ /\ game_map[y][x] = TILE_DOOR_LOCKED
                      /\ player'.credits >= player.credits + 20
                      /\ LET k == FirstTerminal(game_map, player.x, player.y, 1) IN
                         /\ k # 0
                         /\ Abs(x - (player.x + NEAR5[k][1])) <= 4
                         /\ Abs(y - (player.y + NEAR5[k][2])) <= 4
      ]_vars

\* The locked door beyond the terminal has been opened by a hack, the
\* keycard still in hand, with the stairs and the terminal where they were.
C21_Witness ==
    /\ locked_doors # << >>
    /\ game_map[locked_doors[1][2]][locked_doors[1][1]] = TILE_DOOR_OPEN
    /\ player.keycards = 1
    /\ game_map[stairs_pos[2]][stairs_pos[1]] = TILE_STAIRS
    /\ game_map[terminals[1][2]][terminals[1][1]] = TILE_TERMINAL

\* C22: interact opens a DoorLocked next to the player only when the player
\* holds a keycard, and the unlock takes exactly one keycard and leaves the
\* player in place; with no keycard, and on a bump into the locked door,
\* the tiles, the keycards and the player's position stay as they were; the
\* keycard count is never negative.
C22_KeycardUnlock ==
    [][ pc = "input" =>
          LET k == FirstDoor(game_map, player.x, player.y, 1)
              dx == player.x + DIRS4[k][1]
              dy == player.y + DIRS4[k][2]
              still == player'.x = player.x /\ player'.y = player.y
          IN  /\ player.keycards >= 0 /\ player'.keycards >= 0
              /\ player'.keycards < player.keycards =>
                    /\ player'.keycards = player.keycards - 1
                    /\ still
                    /\ k # 0
                    /\ game_map[dy][dx] = TILE_DOOR_LOCKED
                    /\ game_map' = [game_map EXCEPT ![dy][dx] = TILE_DOOR_OPEN]
              /\ \A y \in YS, x \in XS :
                    (/\ game_map[y][x] = TILE_DOOR_LOCKED
                     /\ game_map'[y][x] # TILE_DOOR_LOCKED
                     /\ player'.credits = player.credits) =>
                       (player.keycards >= 1 /\ player'.keycards = player.keycards - 1)
              /\ (KeyInteract /\ k # 0 /\ player.keycards = 0) =>
                    (game_map[dy][dx] = TILE_DOOR_LOCKED =>
                       (game_map' = game_map /\ player'.keycards = 0 /\ still))
              /\ \A d \in PatrolDirs :
                    (/\ InBounds(player.x + d[1], player.y + d[2])
                     /\ game_map[player.y + d[2]][player.x + d[1]] = TILE_DOOR_LOCKED
                     /\ Move({d})) =>
                       /\ game_map' = game_map
                       /\ player'.keycards = player.keycards
                       /\ still
      ]_vars

\* The keycard has just been spent on the locked door next to the player.
C22_Witness ==
    /\ pc = "enemies" /\ eidx = 1
    /\ locked_doors # << >>
    /\ game_map[locked_doors[1][2]][locked_doors[1][1]] = TILE_DOOR_OPEN
    /\ Beside(locked_doors[1][1], locked_doors[1][2])
    /\ player.keycards = 0
    /\ player.credits = 50

\* The living enemies in the weapon's range and in the player's sight
Shootable ==
    { i \in 1 .. Len(enemies) :
         /\ alive(enemies[i])
         /\ Dist(enemies[i], player) <= WEAPON_RANGE(player.weapon)
         /\ line_of_sight(game_map, player.x, player.y, enemies[i].x, enemies[i].y) }

\* C23: fire lowers an enemy's HP only when the weapon is ranged and a
\* living enemy is within its range (Manhattan distance) and in sight; then
\* exactly one enemy loses HP, and it is a nearest of those; otherwise fire
\* changes no enemy.
C23_FireTarget ==
    [][ KeyFire =>
          LET hurt == { i \in 1 .. Len(enemies) : enemies'[i].hp < enemies[i].hp } IN
          /\ Len(enemies') = Len(enemies)
          /\ (player.weapon_type # "ranged" \/ Shootable = {}) => enemies' = enemies
          /\ (player.weapon_type = "ranged" /\ Shootable # {}) =>
                /\ Cardinality(hurt) = 1
                /\ hurt \subseteq Shootable
                /\ \A i \in hurt, j \in Shootable :
                      Dist(enemies[i], player) <= Dist(enemies[j], player)
                /\ \A i \in 1 .. Len(enemies) :
                      enemies'[i] = [enemies[i] EXCEPT !.hp = enemies'[i].hp]
      ]_vars

\* A shot has hit the nearer of two enemies in range and in sight.
C23_Witness ==
    /\ pc = "enemies" /\ eidx = 1 /\ last = "valid"
    /\ player.weapon_type = "ranged"
    /\ Len(enemies) = 2
    /\ Shootable = {1, 2}
    /\ Dist(enemies[1], player) < Dist(enemies[2], player)
    /\ enemies[1].hp < Enemy(enemies[1].name, 0, 0, level_num, << 0, 1 >>).hp
    /\ enemies[2].hp = Enemy(enemies[2].name, 0, 0, level_num, << 0, 1 >>).hp

\* ------------------------------------------------ a stim across the turns
\* Player turns explored after the stim
MaxStimTurns == 12

\* A player holding a Stim Pack, before a turn is taken
InitStim ==
    /\ Parked
    /\ pc = "stim"
    /\ game_map = EmptyMap
    /\ enemies = << >>
    /\ \E c \in Classes, inv \in {<< "Stim Pack" >>, << "Medkit", "Stim Pack" >>} :
         player = [Player(c) EXCEPT !.inventory = inv]
    /\ call = [fn |-> "stim", used |-> FALSE, since |-> 0, bonus |-> 0, dmg |-> 0,
               draw |-> 0, kind |-> ""]

\* t
StimUse ==
    /\ pc = "stim"
    /\ player' = use_stim(player)
    /\ call' = IF player' # player THEN [call EXCEPT !.used = TRUE, !.since = 0] ELSE call
    /\ UNCHANGED << pc, level_num, game_map, genvars, enemies, items, raven_pos,
                    eidx, last, acted >>

\* A turn: "player.turns_taken += 1; player.tick_stim()", then the attack of
\* the given kind with the draw r
StimTurn(kind, r) ==
    /\ pc = "stim"
    /\ player.turns_taken < MaxStimTurns
    /\ player' = BeginTurn(player)
    /\ call' = [call EXCEPT !.since = IF call.used THEN @ + 1 ELSE @,
                            !.bonus = player'.stim_bonus,
                            !.dmg = IF kind = "melee" THEN deal_melee_damage(player', r)
                                    ELSE deal_ranged_damage(player', r),
                            !.draw = r, !.kind = kind]
    /\ UNCHANGED << pc, level_num, game_map, genvars, enemies, items, raven_pos,
                    eidx, last, acted >>

\* A bump into an enemy
StimMelee == pc = "stim" /\ \E r \in MeleeDraws : StimTurn("melee", r)

\* f with a target
StimRanged == pc = "stim" /\ \E r \in RangedDraws : StimTurn("ranged", r)

SpecStim == InitStim /\ [][StimUse \/ StimMelee \/ StimRanged]_vars

\* C24: after a Stim Pack (duration 10, boost 5) is used, the remaining
\* duration falls by one on each player turn until it is zero, and the
\* boost is part of the player's melee and ranged damage on each of the
\* next 10 turns and is 0 from then on.
C24_StimLasts ==
    (call.used /\ call.since >= 1) =>
       /\ player.stim_turns = Max(0, 10 - call.since)
       /\ call.bonus = IF call.since <= 10 THEN 5 ELSE 0
       /\ call.dmg = Max(1, player.weapon_dmg + call.bonus + call.draw
                            + IF call.kind = "melee" THEN player.melee_bonus
                              ELSE player.ranged_bonus)

\* ---------------------------------------------------------------- key a
\* The key a: "elif key in (curses.KEY_LEFT, ord('a'), ord('A')): dx = -1"
\* is tested before "elif key in (ord('a'),)", so a is a step to the west
KeyA ==
    /\ TurnKey
    /\ Move({<< -1, 0 >>})

\* C25: the key a flips player.auto_pickup, does not move the player and
\* gives the enemies no turn; with auto-pickup off, a move onto an item's
\* cell leaves the item where it is.
C25_AutoPickupKey ==
    [][ /\ KeyA => /\ player'.auto_pickup = ~player.auto_pickup
                   /\ player'.x = player.x /\ player'.y = player.y
                   /\ enemies' = enemies
                   /\ pc' = "input"
        /\ \A d \in PatrolDirs :
             (Move({d}) /\ ~player.auto_pickup) => items' = items ]_vars

\* ------------------------------------------------------------ fog of war
\* math.cos(math.radians(a)) for a = 0 .. 90, in ten-thousandths
CosTable ==
    << 10000, 9998, 9994, 9986, 9976, 9962, 9945, 9925, 9903, 9877,
       9848, 9816, 9781, 9744, 9703, 9659, 9613, 9563, 9511, 9455,
       9397, 9336, 9272, 9205, 9135, 9063, 8988, 8910, 8829, 8746,
       8660, 8572, 8480, 8387, 8290, 8192, 8090, 7986, 7880, 7771,
       7660, 7547, 7431, 7314, 7193, 7071, 6947, 6820, 6691, 6561,
       6428, 6293, 6157, 6018, 5878, 5736, 5592, 5446, 5299, 5150,
       5000, 4848, 4695, 4540, 4384, 4226, 4067, 3907, 3746, 3584,
       3420, 3256, 3090, 2924, 2756, 2588, 2419, 2250, 2079, 1908,
       1736, 1564, 1392, 1219, 1045, 872, 698, 523, 349, 175,
       0 >>

Cos(a) ==
    IF a <= 90 THEN CosTable[a + 1]
    ELSE IF a <= 180 THEN 0 - CosTable[181 - a]
    ELSE IF a <= 270 THEN 0 - CosTable[a - 179]
    ELSE CosTable[361 - a]

Sin(a) == Cos((a + 270) % 360)

\* round() of n ten-thousandths: to the nearest integer, a half to the even one
RoundHalfEven(n) ==
    LET q == n \div 10000
        r == n % 10000
    IN  IF 2 * r < 10000 THEN q
        ELSE IF 2 * r > 10000 THEN q + 1
        ELSE IF q % 2 = 0 THEN q ELSE q + 1

\* << f, a, k, p >>: from the coordinate p the float sum p + f(a) + ... + f(a)
\* (k terms) is not the half the exact sum is, and rounds one higher
HalfUp ==
    { << "cos", 120, 1, 1 >>, << "cos", 120, 3, 2 >>, << "cos", 120, 5, 1 >>, << "cos", 120, 5, 3 >>,
      << "cos", 120, 7, 2 >>, << "cos", 120, 7, 4 >> }

\* ... and rounds one lower
HalfDown ==
    { << "cos", 240, 1, 2 >>, << "cos", 240, 1, 4 >>, << "cos", 240, 3, 1 >>, << "cos", 240, 3, 3 >>,
      << "cos", 240, 3, 5 >>, << "cos", 240, 5, 2 >>, << "cos", 240, 5, 4 >>, << "cos", 240, 5, 6 >>,
      << "cos", 240, 7, 1 >>, << "cos", 240, 7, 3 >>, << "cos", 240, 7, 5 >>, << "cos", 240, 7, 7 >>,
      << "sin", 210, 3, 1 >>, << "sin", 210, 5, 2 >>, << "sin", 210, 7, 1 >>, << "sin", 210, 7, 3 >>,
      << "sin", 330, 1, 2 >>, << "sin", 330, 1, 4 >>, << "sin", 330, 3, 1 >>, << "sin", 330, 3, 3 >>,
      << "sin", 330, 3, 5 >>, << "sin", 330, 5, 2 >>, << "sin", 330, 5, 4 >>, << "sin", 330, 5, 6 >>,
      << "sin", 330, 7, 1 >>, << "sin", 330, 7, 3 >>, << "sin", 330, 7, 5 >>, << "sin", 330, 7, 7 >> }

\* int(round(x)) after k steps "x += dx" from float(p)
RayCoord(f, a, k, p) ==
    RoundHalfEven(p * 10000 + k * (IF f = "cos" THEN Cos(a) ELSE Sin(a)))
    + (IF << f, a, k, p >> \in HalfUp THEN 1
       ELSE IF << f, a, k, p >> \in HalfDown THEN 0 - 1 ELSE 0)

\* The cells the ray of angle a marks from its step k on
RECURSIVE Ray(_, _, _, _, _, _)
Ray(m, px, py, a, k, radius) ==
    IF k >= radius THEN {}
    ELSE LET ix == RayCoord("cos", a, k, px)
             iy == RayCoord("sin", a, k, py)
         IN  IF ~InBounds(ix, iy) THEN {}
             ELSE {<< ix, iy >>}
                  \cup (IF m[iy][ix] \in OPAQUE_TILES THEN {}
                        ELSE Ray(m, px, py, a, k + 1, radius))

compute_fov(m, px, py, radius) ==
    UNION { Ray(m, px, py, a, 0, radius) : a \in 0 .. 359 }

\* Keys explored in a run under the fog
MaxFogTurns == 6

\* Levels without an enemy: the one enemy draw falls on the stairs cell
FogDraws(lvl, bs) ==
    { s \in { Sample(lvl, Classes, << RoomA, b >>,
                     << << >>, << Draw("Turret", b.x + 2, 3, << 0, 1 >>) >> >>,
                     << >>, << >>, NoPos) : b \in bs } : ValidDraws(s) }

\* "explored = set()" left out
keep_explored(ex) == ex

\* "explored = set()" on a descent
reset_explored(ex) == {}

\* << x, y, radius, m, compute_fov(m, x, y, radius) >> for every cell of
\* these levels a player can stand on
FovTable ==
    { << k[1], k[2], k[3], k[4], compute_fov(k[4], k[1], k[2], k[3]) >> :
        k \in { q \in XS \X YS \X { CLASS_STATS(c).vision : c \in Classes }
                      \X { generate_level(s).map :
                             s \in UNION { FogDraws(l, {NearB, FarB}) :
                                             l \in 1 .. MAX_LEVELS } } :
                q[4][q[2]][q[1]] \in WALKABLE_TILES } }

\* The head of the loop: "visible = compute_fov(...); explored.update(visible)".
\* seen collects the visible sets computed on the level.
Render(m, p, ex, seen) ==
    LET visible == (CHOOSE e \in FovTable :
                      e[1] = p.x /\ e[2] = p.y /\ e[3] = p.vision /\ e[4] = m)[5] IN
    [fn |-> "fog", visible |-> visible, explored |-> ex \cup visible,
     seen |-> seen \cup {visible}]

FogEnter(lv, p, ex) ==
    LET p4 == [p EXCEPT !.x = lv.start[1], !.y = lv.start[2]] IN
    /\ game_map' = lv.map
    /\ rooms' = lv.rooms
    /\ doors' = lv.doors
    /\ locked_doors' = lv.locked
    /\ player_start' = lv.start
    /\ stairs_pos' = lv.stairs
    /\ terminals' = lv.terminals
    /\ enemies' = lv.enemies
    /\ items' = lv.items
    /\ raven_pos' = lv.raven
    /\ player' = p4
    /\ call' = Render(lv.map, p4, ex, {})

InitFog ==
    /\ level_num \in {1, MAX_LEVELS}
    /\ \E c \in Classes, s \in FogDraws(level_num, {NearB}) :
         LET lv == generate_level(s)
             p == [Player(c) EXCEPT !.x = lv.start[1], !.y = lv.start[2]]
         IN  /\ game_map = lv.map
             /\ rooms = lv.rooms /\ doors = lv.doors /\ locked_doors = lv.locked
             /\ player_start = lv.start /\ stairs_pos = lv.stairs
             /\ terminals = lv.terminals /\ enemies = lv.enemies
             /\ items = lv.items /\ raven_pos = lv.raven
             /\ player = p
             /\ call = Render(lv.map, p, {}, {})
    /\ attempts = 0 /\ pc = "fog" /\ eidx = 0 /\ last = "" /\ acted = << >>

\* A movement key on a level without enemies, doors and items, up to the
\* render of the next iteration
FogMove ==
    /\ pc = "fog"
    /\ player.turns_taken < MaxFogTurns
    /\ \E d \in PatrolDirs :
         LET p1 == BeginTurn(player)
             nx == player.x + d[1]
             ny == player.y + d[2]
             p2 == [p1 EXCEPT !.x = nx, !.y = ny]
             p3 == [p2 EXCEPT !.levels_cleared = @ + 1]
             stay == /\ UNCHANGED << pc, level_num, game_map, genvars, enemies,
                                     items, raven_pos, eidx, last, acted >>
         IN  IF ~InBounds(nx, ny) \/ game_map[ny][nx] \notin WALKABLE_TILES
             THEN /\ player' = p1
                  /\ call' = Render(game_map, p1, call.explored, call.seen)
                  /\ stay
             ELSE IF game_map[ny][nx] # TILE_STAIRS
             THEN /\ player' = p2
                  /\ call' = Render(game_map, p2, call.explored, call.seen)
                  /\ stay
             ELSE \/ /\ player' = p2
                     /\ call' = Render(game_map, p2, call.explored, call.seen)
                     /\ stay
                  \/ /\ is_last_level(level_num)
                     /\ player' = p3
                     /\ pc' = "over"
                     /\ UNCHANGED << level_num, game_map, genvars, enemies, items,
                                     raven_pos, eidx, last, acted, call >>
                  \/ /\ ~is_last_level(level_num)
                     /\ level_num' = level_num + 1
                     /\ \E s \in FogDraws(level_num + 1, {NearB, FarB}) :
                          FogEnter(generate_level(s), p3, reset_explored(call.explored))
                     /\ UNCHANGED << pc, attempts, eidx, last, acted >>

SpecFog == InitFog /\ [][FogMove]_vars

\* C26: at every render the explored set is the union of the visible sets
\* computed since the level began, so it contains the current visible set
\* and only grows while the level lasts; a level transition empties it, so
\* that the first render of the new level leaves it equal to the visible set.
C26_Explored ==
    [][ /\ call.explored = UNION call.seen
        /\ call'.explored = UNION call'.seen
        /\ call'.visible \in call'.seen
        /\ call'.visible \subseteq call'.explored
        /\ level_num' = level_num => /\ call.explored \subseteq call'.explored
                                     /\ call.seen \subseteq call'.seen
        /\ level_num' # level_num => /\ call'.explored = call'.visible
                                     /\ call'.seen = {call'.visible} ]_vars

\* On the second level, after a descent, two visible sets have been computed
\* and the explored set is larger than the current visible set
C26_Witness ==
    /\ pc = "fog"
    /\ level_num = 2
    /\ player.levels_cleared = 1
    /\ Cardinality(call.seen) = 2
    /\ call.visible # call.explored
    /\ call.explored # {}

\* ------------------------------------------- the ICE parameters, by input
\* Largest hack skill drawn
MaxSkill == 100

\* A floor and a player of some hack skill, _ice_params not yet called
InitParams ==
    /\ ParkedLevel
    /\ pc = "params"
    /\ level_num \in 1 .. MAX_LEVELS
    /\ game_map = EmptyMap
    /\ enemies = << >>
    /\ \E c \in Classes, k \in 0 .. MaxSkill :
         player = [Player(c) EXCEPT !.hack_skill = k]
    /\ call = NoCall

\* _ice_params(player, level_num) on the inputs held, or on inputs that
\* differ from them in the floor or in the skill
IceParams ==
    /\ pc = "params"
    /\ \E lvl \in 1 .. MAX_LEVELS, k \in 0 .. MaxSkill :
         /\ lvl = level_num \/ k = player.hack_skill
         /\ level_num' = lvl
         /\ player' = [player EXCEPT !.hack_skill = k]
         /\ call' = [fn |-> "ice_params", out |-> ice_params(player', lvl)]
    /\ UNCHANGED << pc, game_map, genvars, enemies, items, raven_pos, eidx, last,
                    acted >>

SpecParams == InitParams /\ [][IceParams]_vars

\* C27: on floor d and for hack skill k, code_length is min(3 + (d-1) div 2, 6),
\* pool_size is 8 + (d-1) div 2 less the skill bonus (2 from skill 70, 1
\* from 35, else 0) clamped to 4 .. 16, and max_attempts is 6 plus that
\* bonus; a higher skill never gives fewer attempts or a larger pool, and
\* a deeper floor never gives a shorter code.
C27_IceParams ==
    [][ call'.fn = "ice_params" =>
          LET d == level_num'
              k == player'.hack_skill
              bonus == IF k >= 70 THEN 2 ELSE IF k >= 35 THEN 1 ELSE 0
              raw == 8 + ((d - 1) \div 2) - bonus
              out == call'.out
          IN  /\ out.code_length = (IF 3 + ((d - 1) \div 2) < 6
                                    THEN 3 + ((d - 1) \div 2) ELSE 6)
              /\ out.pool_size = (IF raw < 4 THEN 4 ELSE IF raw > 16 THEN 16 ELSE raw)
              /\ out.max_attempts = 6 + bonus
              /\ call.fn = "ice_params" =>
                   /\ (d = level_num /\ k >= player.hack_skill) =>
                         /\ out.max_attempts >= call.out.max_attempts
                         /\ out.pool_size <= call.out.pool_size
                   /\ d >= level_num => out.code_length >= call.out.code_length ]_vars

\* The deepest floor at the skill where the top tier begins
C27_Witness ==
    /\ call.fn = "ice_params"
    /\ level_num = MAX_LEVELS
    /\ player.hack_skill = 70
    /\ call.out = [code_length |-> 6, max_attempts |-> 8, pool_size |-> 10]

\* --------------------------------------------------- the stock, by depth
\* A depth and a buyer, get_shop_stock not yet called
InitStock ==
    /\ ParkedLevel
    /\ pc = "stock"
    /\ level_num \in 1 .. MAX_LEVELS
    /\ game_map = EmptyMap
    /\ enemies = << >>
    /\ \E c \in Classes, cr \in CreditDraws : player = [Player(c) EXCEPT !.credits = cr]
    /\ call = NoCall

\* get_shop_stock(lvl), at the depth held or at another one
ShopStock ==
    /\ pc = "stock"
    /\ \E lvl \in 1 .. MAX_LEVELS :
         /\ level_num' = lvl
         /\ call' = [fn |-> "get_shop_stock", stock |-> get_shop_stock(lvl)]
    /\ UNCHANGED << pc, game_map, genvars, player, enemies, items, raven_pos, eidx,
                    last, acted >>

SpecStock == InitStock /\ [][ShopStock]_vars

\* C28: the stock grows with the depth: for depths L < L' every item on
\* offer at L is on offer at L' at a price that is not lower.  Medkit and
\* Stim Pack are on offer at every depth, a ranged weapon from depth 2, armour
\* from 3, the grenade from 4, the heavy armour from 5 and the top-tier
\* melee and ranged weapons from 6.
C28_StockMonotone ==
    [][ call'.fn = "get_shop_stock" =>
          LET st == call'.stock
              L == level_num'
              Named(n) == { i \in 1 .. Len(st) : st[i].name = n }
          IN  /\ Named("Medkit") # {} /\ Named("Stim Pack") # {}
              /\ Named("SMG") # {} <=> L >= 2
              /\ \A i \in Named("SMG") : st[i].type = "weapon" /\ st[i].weapon_type = "ranged"
              /\ Named("Kevlar Vest") # {} <=> L >= 3
              /\ \A i \in Named("Kevlar Vest") : st[i].type = "armor"
              /\ Named("EMP Grenade") # {} <=> L >= 4
              /\ Named("Kiroshi Body Armor") # {} <=> L >= 5
              /\ \A i \in Named("Kiroshi Body Armor") : st[i].type = "armor"
              /\ Named("Kusanagi Blade") # {} <=> L >= 6
              /\ \A i \in Named("Kusanagi Blade") : st[i].weapon_type = "melee"
              /\ Named("Ono-Sendai Zapper") # {} <=> L >= 6
              /\ \A i \in Named("Ono-Sendai Zapper") : st[i].weapon_type = "ranged"
              /\ (call.fn = "get_shop_stock" /\ level_num < L) =>
                   \A i \in 1 .. Len(call.stock) :
                      \E j \in Named(call.stock[i].name) :
                         st[j].price >= call.stock[i].price ]_vars

\* The full stock of depth 6
C28_Witness ==
    /\ call.fn = "get_shop_stock"
    /\ level_num = 6
    /\ Len(call.stock) = 8
    /\ \E i \in 1 .. 8 : call.stock[i].name = "Medkit" /\ call.stock[i].price = 70

C30_NoEnemyOnPlayer ==
    \A i \in 1 .. Len(enemies) :
       alive(enemies[i]) => ~(enemies[i].x = player.x /\ enemies[i].y = player.y)

\* ------------------------------------------------------- the enemy phase
\* C31: every enemy turn completes normally: take_turn returns None, an
\* attack or a shot, the trace-back of _chase ends at the enemy's own cell
\* and yields a step of at most one cell, and the enemy phase never aborts
\* the game with an error.
C31_EnemyTurnCompletes == pc # "crashed"

\* ------------------------------------------------------- door placement
\* C32: in every generated level with at least two rooms place_doors turns
\* at least one room-perimeter cell where a corridor meets the room edge
\* into a Door, so the door list it returns is not empty.
C32_DoorsPlaced ==
    (pc \in {"terminals", "placed"} /\ Len(rooms) >= 2) =>
       /\ doors # << >>
       /\ \E i \in 1 .. Len(doors) :
             game_map[doors[i][2]][doors[i][1]] \in {TILE_DOOR, TILE_DOOR_LOCKED}

\* ------------------------------------------------------- patrol at a wall
\* A second level some turns after a failed hack of the terminal (7, 2):
\* the drone dispatched to (6, 2) drew patrol_dir (-1, 0), towards the wall
\* cell (5, 2), and was hemmed in by three Netrunner ICE until the player
\* had walked more than 8 cells away; it has not moved since it was spawned.
PatrolSample ==
    Sample(2, {CLASS_SAMURAI}, << RoomA, NearB, RoomC >>,
           << << >>, << Draw("Netrunner ICE", 7, 3, << 0, 1 >>),
                        Draw("Netrunner ICE", 8, 2, << 0, 1 >>) >>,
              << Draw("Netrunner ICE", 12, 2, << 0, 1 >>) >> >>,
           << << 7, 2 >> >>, << >>, NoPos)

InitPatrol ==
    /\ level_num = 2
    /\ ValidDraws(PatrolSample)
    /\ LET lv == generate_level(PatrolSample)
           at(e, x, y) == [e EXCEPT !.x = x, !.y = y]
           drone == [Enemy("Security Drone", 6, 2, 1, << -1, 0 >>)
                        EXCEPT !.alert = TRUE]
       IN  /\ game_map = lv.map
           /\ rooms = lv.rooms
           /\ doors = lv.doors
           /\ locked_doors = lv.locked
           /\ player_start = lv.start
           /\ stairs_pos = lv.stairs
           /\ terminals = lv.terminals
           /\ items = lv.items
           /\ raven_pos = lv.raven
           /\ Len(lv.enemies) = 3
           /\ enemies = << at(lv.enemies[1], 7, 1), at(lv.enemies[2], 7, 3),
                           at(lv.enemies[3], 8, 2), drone >>
           /\ \E y \in {2, 3} :
                player = [Player(CLASS_SAMURAI) EXCEPT
                             !.x = 14, !.y = y, !.levels_cleared = 1,
                             !.turns_taken = TurnCap - 2]
    /\ attempts = 0
    /\ pc = "input"
    /\ eidx = 0
    /\ last = ""
    /\ acted = << >>
    /\ call = NoCall

SpecPatrol == InitPatrol /\ [][KeyMove \/ KeyWait \/ EnemyStep \/ EndOfTurn]_vars

\* The cell one step along d from e is outside the board or a blocking tile.
StepBlocked(m, e, d) ==
    LET nx == e.x + d[1]
        ny == e.y + d[2]
    IN  \/ ~InBounds(nx, ny)
        \/ m[ny][nx] \in BLOCKING_TILES

\* C33: a patrol enemy moving in patrol mode reverses its bias direction
\* whenever the next step along that direction would be blocked by a blocking
\* tile or the board edge, so it never stays on the same cell facing a
\* blocked cell while the opposite direction is open.
C33_PatrolReverses ==
    [][ ( /\ EnemyStep
          /\ alive(enemies[eidx]) /\ ~enemies[eidx].disabled
          /\ choose_step(eidx, player, game_map, enemies, << 0, 0 >>).mode = "patrol"
          /\ StepBlocked(game_map, enemies[eidx], enemies[eidx].patrol_dir)
          /\ ~StepBlocked(game_map, enemies[eidx],
                          << -enemies[eidx].patrol_dir[1],
                             -enemies[eidx].patrol_dir[2] >>)
          /\ FirstLiving(enemies, enemies[eidx].x - enemies[eidx].patrol_dir[1],
                          enemies[eidx].y - enemies[eidx].patrol_dir[2]) = 0 )
        => \/ << enemies'[eidx].x, enemies'[eidx].y >>
                 # << enemies[eidx].x, enemies[eidx].y >>
           \/ enemies'[eidx].patrol_dir
                 = << -enemies[eidx].patrol_dir[1], -enemies[eidx].patrol_dir[2] >>
      ]_vars

\* C34: no two living enemies occupy the same cell, after placement at
\* generation, after a failed hack dispatches a drone and after every enemy
\* move.
C34_DistinctCells ==
    \A i, j \in 1 .. Len(enemies) :
       (i # j /\ alive(enemies[i]) /\ alive(enemies[j])) =>
          << enemies[i].x, enemies[i].y >> # << enemies[j].x, enemies[j].y >>

\* ------------------------------------------------------- shortest paths
\* The cells of the other living enemies, as enemy i sees them
OtherEnemies(i, es) ==
    { << es[j].x, es[j].y >> : j \in { k \in 1 .. Len(es) : k # i /\ alive(es[k]) } }

\* The length of a shortest 4-connected path from s to g over non-blocking
\* tiles that avoids the cells in blocked (g itself excepted) and leaves no
\* cell at distance max_radius or more from s; -1 when there is none.
\* front holds the cells at k steps from s, seen those at k steps or fewer.
RECURSIVE PathLen(_, _, _, _, _, _, _)
PathLen(m, s, g, blocked, front, seen, k) ==
    IF g \in front THEN k
    ELSE IF front = {} THEN -1
    ELSE LET open == { c \in front :
                          Abs(c[1] - s[1]) + Abs(c[2] - s[2]) < max_radius }
             nxt == { n \in UNION { Neighbours4(c) : c \in open } :
                         /\ n \notin seen
                         /\ InBounds(n[1], n[2])
                         /\ m[n[2]][n[1]] \notin BLOCKING_TILES
                         /\ (n = g \/ n \notin blocked) }
         IN  PathLen(m, s, g, blocked, nxt, seen \cup nxt, k + 1)

ShortestPath(m, s, g, blocked) == PathLen(m, s, g, blocked, {s}, {s}, 0)

\* The single greedy step toward g from s
GreedyCell(s, g) ==
    IF Abs(g[1] - s[1]) >= Abs(g[2] - s[2])
    THEN << s[1] + (IF g[1] = s[1] THEN 0 ELSE IF g[1] > s[1] THEN 1 ELSE -1), s[2] >>
    ELSE << s[1], s[2] + (IF g[2] = s[2] THEN 0 ELSE IF g[2] > s[2] THEN 1 ELSE -1) >>

\* C35: a chasing enemy with a path of length L >= 1 to the player takes the
\* first step of a shortest one: it attacks when L = 1 and otherwise moves
\* one cardinal step to a cell whose shortest path is L - 1; with no path it
\* takes the single greedy step, refused when the cell is blocking or
\* occupied.
C35_ChaseShortest ==
    [][ ( /\ EnemyStep
          /\ alive(enemies[eidx]) /\ ~enemies[eidx].disabled
          /\ choose_step(eidx, player, game_map, enemies, << 0, 0 >>).mode = "chase" )
        => LET e == enemies[eidx]
               s == << e.x, e.y >>
               g == << player.x, player.y >>
               blocked == OtherEnemies(eidx, enemies)
               L == ShortestPath(game_map, s, g, blocked)
               t == << enemies'[eidx].x, enemies'[eidx].y >>
               gc == GreedyCell(s, g)
           IN  /\ L = 1 => /\ t = s
                           /\ player'.hp < player.hp \/ player.hp = 0
               /\ L >= 2 => /\ t \in Neighbours4(s)
                            /\ ShortestPath(game_map, t, g, blocked) = L - 1
                            /\ player' = player
               /\ L = -1 => /\ player' = player
                            /\ t = IF /\ InBounds(gc[1], gc[2])
                                      /\ game_map[gc[2]][gc[1]] \notin BLOCKING_TILES
                                      /\ gc \notin blocked
                                   THEN gc ELSE s
      ]_vars

\* A chase step was taken along a path of three cells or more
C35_Witness ==
    \E k \in 1 .. Len(acted) :
       /\ acted[k].mode = "chase"
       /\ acted[k].dist >= 3
       /\ Dist(enemies[acted[k].idx], player) = acted[k].dist - 1

\* ------------------------------------------------------ Raven's cell
\* A third level whose Raven draw is the cell an enemy was placed on:
\* generate_level draws Raven's cell after place_enemies and tests only the
\* tile.
RavenSample ==
    Sample(3, {CLASS_SAMURAI}, << RoomA, NearB, RoomC >>,
           << << >>, << Draw("Turret", 7, 3, << 0, 1 >>) >>,
              << Draw("Netrunner ICE", 13, 2, << 0, 1 >>) >> >>,
           << << 8, 2 >> >>, << >>, << 7, 3 >>)

InitRaven ==
    /\ level_num = 3
    /\ ValidDraws(RavenSample)
    /\ \E p \in Carried(CLASS_SAMURAI, level_num) :
         LET lv == generate_level(RavenSample) IN
         /\ game_map = lv.map
         /\ rooms = lv.rooms
         /\ doors = lv.doors
         /\ locked_doors = lv.locked
         /\ player_start = lv.start
         /\ stairs_pos = lv.stairs
         /\ terminals = lv.terminals
         /\ enemies = lv.enemies
         /\ items = lv.items
         /\ raven_pos = lv.raven
         /\ player = [p EXCEPT !.x = lv.start[1], !.y = lv.start[2]]
    /\ attempts = 0
    /\ pc = "input"
    /\ eidx = 0
    /\ last = ""
    /\ acted = << >>
    /\ call = NoCall

SpecRaven == InitRaven /\ [][KeyMove \/ KeyWait \/ EnemyStep \/ EndOfTurn]_vars

\* C36: a bump is a melee strike, not a move, for both sides: the player
\* moving toward a cell that holds a living enemy stays where they are and
\* that enemy takes damage; an enemy whose step targets the player's cell
\* stays where it is and the player takes damage.
C36_BumpIsStrike ==
    [][ /\ \A d \in PatrolDirs :
             LET tgt == FirstLiving(enemies, player.x + d[1], player.y + d[2]) IN
             (Move({d}) /\ tgt # 0) =>
                /\ << player'.x, player'.y >> = << player.x, player.y >>
                /\ enemies'[tgt].hp < enemies[tgt].hp
        /\ ( /\ EnemyStep
             /\ alive(enemies[eidx]) /\ ~enemies[eidx].disabled
             /\ enemies[eidx].behavior # "stationary"
             /\ << enemies[eidx].x, enemies[eidx].y >> # << player.x, player.y >> )
           => LET e == enemies[eidx]
                  ch == choose_step(eidx, player, game_map, enemies, << 0, 0 >>)
                  stays == << enemies'[eidx].x, enemies'[eidx].y >> = << e.x, e.y >>
                  struck == player'.hp < player.hp \/ player.hp = 0
              IN  /\ ( /\ ch.mode \in {"chase", "patrol"}
                       /\ << e.x + ch.step[1], e.y + ch.step[2] >>
                             = << player.x, player.y >> )
                     => (stays /\ struck)
                  /\ player'.hp < player.hp => stays
                  /\ << enemies'[eidx].x, enemies'[eidx].y >> # << player.x, player.y >>
      ]_vars

\* The cell (x, y) is on the board and its tile is not a blocking one.
OnOpenCell(m, x, y) == InBounds(x, y) /\ m[y][x] \notin BLOCKING_TILES

\* C37: the player and every living enemy stand on an in-bounds cell whose
\* tile is not in BLOCKING_TILES, whatever moves, chase steps, greedy steps,
\* hacks and level transitions have occurred.
C37_OnOpenCells ==
    /\ OnOpenCell(game_map, player.x, player.y)
    /\ \A i \in 1 .. Len(enemies) :
          alive(enemies[i]) => OnOpenCell(game_map, enemies[i].x, enemies[i].y)

\* The player has walked off the start cell and an enemy has just taken a
\* chase step that moved it.
C37_Witness ==
    /\ << player.x, player.y >> # player_start
    /\ last = "valid"
    /\ \E k \in 1 .. Len(acted) :
          /\ acted[k].mode = "chase"
          /\ acted[k].dist >= 2
          /\ Dist(enemies[acted[k].idx], player) = acted[k].dist - 1

\* ------------------------------------------------------- room geometry
\* The cells of room r
RoomCells(r) == { << x, y >> : x \in r.x .. (r.x + r.w - 1), y \in r.y .. (r.y + r.h - 1) }

\* At least one column or one row of non-room cells lies between a and b.
Separated(a, b) ==
    \/ a.x + a.w < b.x
    \/ b.x + b.w < a.x
    \/ a.y + a.h < b.y
    \/ b.y + b.h < a.y

\* C38: in every generated level no two accepted rooms share a cell or
\* touch, every room lies strictly inside the board, and the board's outer
\* border cells are always Wall.
C38_RoomsApart ==
    /\ \A i, j \in 1 .. Len(rooms) :
          i # j => /\ RoomCells(rooms[i]) \cap RoomCells(rooms[j]) = {}
                   /\ Separated(rooms[i], rooms[j])
    /\ \A i \in 1 .. Len(rooms) :
          RoomCells(rooms[i]) \subseteq (1 .. (MAP_W - 2)) \X (1 .. (MAP_H - 2))
    /\ \A x \in XS : game_map[0][x] = TILE_WALL /\ game_map[MAP_H - 1][x] = TILE_WALL
    /\ \A y \in YS : game_map[y][0] = TILE_WALL /\ game_map[y][MAP_W - 1] = TILE_WALL

\* A finished level with three rooms, two of them one cell apart and one
\* reaching the last column inside the border
C38_Witness ==
    /\ pc = "placed"
    /\ Len(rooms) = 3
    /\ \E i, j \in 1 .. Len(rooms) :
          i # j /\ rooms[i].x + rooms[i].w + 1 = rooms[j].x
    /\ \E i \in 1 .. Len(rooms) : rooms[i].x + rooms[i].w - 1 = MAP_W - 2

\* ------------------------------------------------------ level transition
\* The fields of the player a descent leaves alone
CarriedFields ==
    {"hp", "max_hp", "credits", "keycards", "data_chips", "inventory",
     "weapon", "weapon_type", "weapon_dmg", "armor", "armor_def",
     "stim_turns", "stim_bonus"}

\* C39: a level transition changes only the board, the entity lists, the
\* player's position and levels_cleared: HP and max HP, currency, keycards,
\* data chips, inventory, weapon, armour and stim state are those the player
\* had on stepping onto the stairs (the turn's own stim tick applied).
C39_DescentKeeps ==
    [][ (KeyMove /\ level_num' = level_num + 1) =>
           /\ \A f \in CarriedFields : player'[f] = BeginTurn(player)[f]
           /\ player'.levels_cleared = player.levels_cleared + 1
           /\ << player'.x, player'.y >> = player_start'
      ]_vars

\* A descent made by a player who was hurt on the level left behind
C39_Witness ==
    /\ last = "descended"
    /\ level_num = 2
    /\ player.hp < player.max_hp
    /\ player.levels_cleared = 1

====
